---- MODULE Spec2Model ----
(***************************************************************************)
(* Attempt-submission and leaderboard-consistency engine of quiz-app:      *)
(* the SQLite store (internal/quiz/sqlite_store.go) and the caching        *)
(* Service in front of it (internal/quiz/service.go).                      *)
(*                                                                         *)
(* Strings are sequences of byte codes, so that strings.TrimSpace,         *)
(* strings.ToUpper/ToLower, concatenation and the lexical order of Go's    *)
(* string comparison are computed rather than assumed.  Scores are the     *)
(* integers 0 and 1 (the code stores 0.0 / 1.0).                           *)
(*                                                                         *)
(* The store is opened with db.SetMaxOpenConns(1): a transaction holds the *)
(* only connection from BeginTx to Commit/Rollback and every other store   *)
(* call waits for it, so each store call is one atomic step.               *)
(***************************************************************************)
EXTENDS Integers, Sequences, FiniteSets, TLC

VARIABLES
    quizzes,          \* table quizzes: set of rows [quiz_id, question_count]
    quiz_questions,   \* table quiz_questions: rows [quiz_id, question_id, position]
    questions,        \* table questions: rows [question_id, correct_index, option_count]
    attempts,         \* table attempts: rows [quiz_id, question_id, username_norm,
                      \*                       answer_letter, score, submitted_at_unix]
    now,              \* the wall clock read by time.Now()
    quizMetaCache,    \* Service.quizMetaCache    : quiz id -> QuizMetadata
    quizQuestions,    \* Service.quizQuestions    : quiz id -> []Question
    leaderboardCache, \* Service.leaderboardCache : quiz id -> [ordered, indexByUser]
    attemptScores,    \* Service.attemptScores    : cache key -> (question id -> score)
    last,             \* the call that has just returned: arguments, results, store calls
    procs,            \* requests in flight on the shared Service (concurrent runs)
    bank              \* Bank.questions          : question id -> Question

vars == <<quizzes, quiz_questions, questions, attempts, now, quizMetaCache,
          quizQuestions, leaderboardCache, attemptScores, last, procs, bank>>

storeVars == <<quizzes, quiz_questions, questions, attempts>>
cacheVars == <<quizMetaCache, quizQuestions, leaderboardCache, attemptScores>>

----------------------------------------------------------------------------
(* Bounds of the model *)

\* The clock is read at most up to this value.
MaxTime == 1

\* Longest batch of responses in one SubmitResponses call.
MaxBatch == 2

\* Number of requests served concurrently by the Service.
MaxRequests == 2

----------------------------------------------------------------------------
(* Strings *)

\* Byte codes of the characters the inputs are built from.
Str_a == <<97>>
Str_b == <<98>>
Str_q == <<113>>
Str_r == <<114>>
Str_x == <<120>>
Str_y == <<121>>
Str_z == <<122>>

\* The white space strings.TrimSpace cuts from a string of bytes: the six
\* ASCII space characters (a lone byte 133 or 160 is not valid UTF-8 and is
\* kept).
IsSpace(c) == c \in {9, 10, 11, 12, 13, 32}

RECURSIVE TrimLeft(_)
TrimLeft(s) ==
    IF s # <<>> /\ IsSpace(Head(s)) THEN TrimLeft(Tail(s)) ELSE s

RECURSIVE TrimRight(_)
TrimRight(s) ==
    IF s # <<>> /\ IsSpace(s[Len(s)]) THEN TrimRight(SubSeq(s, 1, Len(s) - 1)) ELSE s

\* strings.TrimSpace
TrimSpace(s) == TrimRight(TrimLeft(s))

\* strings.ToUpper / strings.ToLower on ASCII text
ToUpper(s) == [i \in 1..Len(s) |-> IF s[i] \in 97..122 THEN s[i] - 32 ELSE s[i]]
ToLower(s) == [i \in 1..Len(s) |-> IF s[i] \in 65..90 THEN s[i] + 32 ELSE s[i]]

\* Go's a < b on strings: bytewise lexical order.
RECURSIVE StrLess(_, _)
StrLess(a, b) ==
    IF b = <<>> THEN FALSE
    ELSE IF a = <<>> THEN TRUE
    ELSE IF Head(a) # Head(b) THEN Head(a) < Head(b)
    ELSE StrLess(Tail(a), Tail(b))

----------------------------------------------------------------------------
(* Values *)

StatusCorrect         == "correct"
StatusIncorrect       == "incorrect"
StatusInvalidQuestion == "invalid_question"
StatusInvalidLetter   == "invalid_letter"
StatusAlreadyAnswered == "already_answered"

ErrNone            == "nil"
ErrQuizNotFound    == "quiz not found"
ErrInvalidUsername == "invalid username"
ErrStorage         == "storage failure"
ErrFetch           == "fetch failure"

\* ResponseResult.AttemptScore == nil
NilScore == -1

\* A Question is [QuestionID, CorrectIndex, NumOptions]: the options are
\* lettered A, B, ... in order, so only their number matters here.
Question(id, correct, n) == [QuestionID |-> id, CorrectIndex |-> correct, NumOptions |-> n]

QuestionX == Question(Str_x, 0, 2)
QuestionY == Question(Str_y, 1, 2)


\* Submitted answers: "A", " b" (normalized to "B") and "AB" (no letter).
Ans_A  == <<65>>
Ans_b  == <<32, 98>>
Ans_AB == <<65, 66>>

SubmittedResponse(qid, answer) == [QuestionID |-> qid, Answer |-> answer]

\* The responses batches are built from: x answered correctly, x answered
\* incorrectly, y answered incorrectly, x with no valid letter, and a
\* question id that no quiz has.
Resp_xA  == SubmittedResponse(Str_x, Ans_A)
Resp_xb  == SubmittedResponse(Str_x, Ans_b)
Resp_yA  == SubmittedResponse(Str_y, Ans_A)
Resp_xAB == SubmittedResponse(Str_x, Ans_AB)
Resp_zA  == SubmittedResponse(Str_z, Ans_A)

\* Batches of at most MaxBatch responses drawn from a set of responses.
BatchesOf(responses) == UNION { [1..n -> responses] : n \in 0..MaxBatch }

\* A result that does not name the question it is about.
ResponseResultWithoutQuestion(qid, status, score) ==
    [QuestionID |-> <<>>, Status |-> status, AttemptScore |-> score]

ResponseResult(qid, status, score) ==
    [QuestionID |-> qid, Status |-> status, AttemptScore |-> score]

QuizMetadata(id, count) == [QuizID |-> id, QuestionCount |-> count]

LeaderboardEntry(user, total, answered, lastAt) ==
    [Username |-> user, TotalScore |-> total, AnsweredCount |-> answered,
     LastSubmissionAt |-> lastAt]

\* The record kept of the call that has just returned.
\*   calls : the store calls it made, by kind
\*   pre   : number of attempt rows of its quiz before the call
\*   wrote : number of attempt rows its transaction had inserted when it ended
\*   limit : the limit argument of Service.GetLeaderboard
NoCalls == [metadata |-> 0, questions |-> 0, leaderboard |-> 0, scores |-> 0,
            submit |-> 0, create |-> 0, fetch |-> 0]

Call(op, quiz, user, responses, results, value, err, calls, pre, wrote) ==
    [op |-> op, quiz |-> quiz, user |-> user, responses |-> responses,
     results |-> results, value |-> value, err |-> err, calls |-> calls,
     pre |-> pre, wrote |-> wrote, limit |-> 0]

----------------------------------------------------------------------------
(* The SQLite store *)

\* The database as one value, for the operators below.
DB == [quizzes |-> quizzes, quiz_questions |-> quiz_questions,
       questions |-> questions, attempts |-> attempts]

AttemptRow(quiz, qid, user, letter, score, at) ==
    [quiz_id |-> quiz, question_id |-> qid, username_norm |-> user,
     answer_letter |-> letter, score |-> score, submitted_at_unix |-> at]

\* PRIMARY KEY (quiz_id, question_id, username_norm) of attempts
SameAttemptKey(r, s) ==
    /\ r.quiz_id = s.quiz_id
    /\ r.question_id = s.question_id
    /\ r.username_norm = s.username_norm

\* INSERT OR REPLACE instead of INSERT OR IGNORE: the later write wins.
InsertOrReplaceAttempt(rows, row) ==
    [rows |-> { r \in rows : ~SameAttemptKey(r, row) } \cup {row}, affected |-> 1]

\* A plain INSERT into a table without the primary key.
InsertAttemptNoKey(rows, row) ==
    [rows |-> rows \cup {row}, affected |-> IF row \in rows THEN 0 ELSE 1]

\* INSERT OR IGNORE INTO attempts: the row is added unless a row with its
\* primary key exists; affected is RowsAffected().
InsertOrIgnoreAttempt(rows, row) ==
    IF \E r \in rows : SameAttemptKey(r, row)
    THEN [rows |-> rows, affected |-> 0]
    ELSE [rows |-> rows \cup {row}, affected |-> 1]

\* SELECT 1 FROM quizzes WHERE quiz_id = ?
QuizExists(db, id) == \E r \in db.quizzes : r.quiz_id = id

\* SELECT quiz_id, question_count FROM quizzes WHERE quiz_id = ?
StoreGetQuizMetadata(db, id) ==
    IF QuizExists(db, id)
    THEN LET r == CHOOSE r \in db.quizzes : r.quiz_id = id
         IN  [value |-> QuizMetadata(r.quiz_id, r.question_count), err |-> ErrNone]
    ELSE [value |-> QuizMetadata(<<>>, 0), err |-> ErrQuizNotFound]

\* The join without WHERE qq.quiz_id = ?: the questions of every quiz.
JoinedQuestionsOfAnyQuiz(db, id) ==
    { [position |-> qq.position, question_id |-> q.question_id,
       correct_index |-> q.correct_index, option_count |-> q.option_count] :
        <<qq, q>> \in { p \in db.quiz_questions \X db.questions :
                          p[1].question_id = p[2].question_id } }

\* quiz_questions JOIN questions for one quiz: the joined rows.
JoinedQuestions(db, id) ==
    { [position |-> qq.position, question_id |-> q.question_id,
       correct_index |-> q.correct_index, option_count |-> q.option_count] :
        <<qq, q>> \in { p \in db.quiz_questions \X db.questions :
                          p[1].quiz_id = id /\ p[1].question_id = p[2].question_id } }

\* ... ORDER BY qq.position ASC
RECURSIVE OrderByPosition(_)
OrderByPosition(rows) ==
    IF rows = {} THEN <<>>
    ELSE LET first == CHOOSE r \in rows : \A s \in rows : r.position <= s.position
         IN  <<Question(first.question_id, first.correct_index, first.option_count)>>
             \o OrderByPosition(rows \ {first})

StoreGetQuizQuestions(db, id) ==
    LET list == OrderByPosition(JoinedQuestions(db, id))
    IN  IF list = <<>> /\ ~QuizExists(db, id)
        THEN [value |-> <<>>, err |-> ErrQuizNotFound]
        ELSE [value |-> list, err |-> ErrNone]

\* The attempts of one quiz, and of one user in it.
QuizAttempts(rows, id) == { r \in rows : r.quiz_id = id }
UserAttempts(rows, id, user) == { r \in QuizAttempts(rows, id) : r.username_norm = user }

\* SUM(score) over a set of attempt rows
RECURSIVE SumScore(_)
SumScore(rows) ==
    IF rows = {} THEN 0
    ELSE LET r == CHOOSE r \in rows : TRUE IN r.score + SumScore(rows \ {r})

\* MAX(submitted_at_unix) over a non-empty set of attempt rows
MaxSubmittedAt(rows) ==
    LET r == CHOOSE r \in rows : \A s \in rows : s.submitted_at_unix <= r.submitted_at_unix
    IN  r.submitted_at_unix

\* SELECT username_norm, SUM(score), COUNT(*), MAX(submitted_at_unix)
\* FROM attempts WHERE quiz_id = ? GROUP BY username_norm
GroupByUser(rows, id) ==
    { LeaderboardEntry(u, SumScore(UserAttempts(rows, id, u)),
                       Cardinality(UserAttempts(rows, id, u)),
                       MaxSubmittedAt(UserAttempts(rows, id, u))) :
        u \in { r.username_norm : r \in QuizAttempts(rows, id) } }

\* ORDER BY total_score DESC, last_submission DESC, username_norm ASC
OrderByLastDesc(a, b) ==
    IF a.TotalScore # b.TotalScore THEN a.TotalScore > b.TotalScore
    ELSE IF a.LastSubmissionAt # b.LastSubmissionAt
         THEN a.LastSubmissionAt > b.LastSubmissionAt
    ELSE StrLess(a.Username, b.Username)

\* ORDER BY total_score DESC, last_submission ASC, username_norm ASC:
\* whether row a is placed before row b.
OrderByBefore(a, b) ==
    IF a.TotalScore # b.TotalScore THEN a.TotalScore > b.TotalScore
    ELSE IF a.LastSubmissionAt # b.LastSubmissionAt
         THEN a.LastSubmissionAt < b.LastSubmissionAt
    ELSE StrLess(a.Username, b.Username)

RECURSIVE OrderBy(_)
OrderBy(entries) ==
    IF entries = {} THEN <<>>
    ELSE LET first == CHOOSE e \in entries :
                          \A o \in entries \ {e} : OrderByBefore(e, o)
         IN  <<first>> \o OrderBy(entries \ {first})

\* SQLiteStore.GetLeaderboard
StoreGetLeaderboard(db, id) ==
    IF ~QuizExists(db, id)
    THEN [value |-> <<>>, err |-> ErrQuizNotFound]
    ELSE [value |-> OrderBy(GroupByUser(db.attempts, id)), err |-> ErrNone]

\* SQLiteStore.GetAttemptScores: scores[questionID] = score for every row read
StoreGetAttemptScores(db, id, user) ==
    LET rows == UserAttempts(db.attempts, id, user)
    IN  [value |-> [qid \in { r.question_id : r \in rows } |->
                       (CHOOSE r \in rows : r.question_id = qid).score],
         err |-> ErrNone]

ErrQuizIDRequired == "quiz id is required"
ErrConstraint     == "UNIQUE constraint failed"

\* A failed transaction whose writes stay.
RollbackKeepsWrites(before, working) == working

\* defer tx.Rollback(): a transaction that does not commit leaves the
\* database as it was when the transaction began.
Rollback(before, working) == before

\* CreateQuiz without its DELETE FROM attempts.
DeleteNoAttempts(rows, id) == rows

\* DELETE FROM attempts WHERE quiz_id = ?
DeleteQuizAttempts(rows, id) == { r \in rows : r.quiz_id # id }

\* INSERT INTO questions ... ON CONFLICT(question_id) DO UPDATE SET ...
UpsertQuestion(rows, q) ==
    { r \in rows : r.question_id # q.QuestionID }
        \cup { [question_id |-> q.QuestionID, correct_index |-> q.CorrectIndex,
                option_count |-> q.NumOptions] }

\* The loop over the questions of CreateQuiz; idx is the Go index (from 0).
\* failAt = idx + 1 makes the statements of that iteration fail.
RECURSIVE CreateQuizLoop(_, _, _, _, _)
CreateQuizLoop(db, id, qs, idx, failAt) ==
    IF idx >= Len(qs) THEN [db |-> db, err |-> ErrNone]
    ELSE IF failAt = idx + 1 THEN [db |-> db, err |-> ErrStorage]
    ELSE LET q   == qs[idx + 1]
             db1 == [db EXCEPT !.questions = UpsertQuestion(@, q)]
         IN  \* PRIMARY KEY (quiz_id, position), UNIQUE (quiz_id, question_id)
             IF \E r \in db1.quiz_questions :
                    /\ r.quiz_id = id
                    /\ (r.position = idx \/ r.question_id = q.QuestionID)
             THEN [db |-> db1, err |-> ErrConstraint]
             ELSE CreateQuizLoop(
                      [db1 EXCEPT !.quiz_questions = @ \cup
                          { [quiz_id |-> id, question_id |-> q.QuestionID,
                             position |-> idx] }],
                      id, qs, idx + 1, failAt)

\* SQLiteStore.CreateQuiz.  failAt: 0 no storage failure, -1 BeginTx fails,
\* k in 1..Len(qs) the statements for question k fail, Len(qs)+1 Commit fails.
StoreCreateQuiz(db, metadata, qs, failAt) ==
    IF metadata.QuizID = <<>> THEN [db |-> db, err |-> ErrQuizIDRequired]
    ELSE IF failAt = -1 THEN [db |-> db, err |-> ErrStorage]
    ELSE
      LET id    == metadata.QuizID
          count == IF metadata.QuestionCount <= 0 THEN Len(qs)
                   ELSE metadata.QuestionCount
          db1   == [db EXCEPT
                      !.quiz_questions = { r \in @ : r.quiz_id # id },
                      !.attempts = DeleteQuizAttempts(@, id),
                      \* INSERT OR REPLACE INTO quizzes
                      !.quizzes = { r \in @ : r.quiz_id # id }
                                    \cup { [quiz_id |-> id, question_count |-> count] }]
          tx    == CreateQuizLoop(db1, id, qs, 0, failAt)
      IN  IF tx.err # ErrNone THEN [db |-> Rollback(db, tx.db), err |-> tx.err]
          ELSE IF failAt = Len(qs) + 1
               THEN [db |-> Rollback(db, tx.db), err |-> ErrStorage]
          ELSE [db |-> tx.db, err |-> ErrNone]

\* questionLookup of SubmitResponses: question_id -> answerKey
QuestionLookup(db, id) ==
    LET joined == JoinedQuestions(db, id)
    IN  [qid \in { j.question_id : j \in joined } |->
            LET j == CHOOSE j \in joined : j.question_id = qid
            IN  [correctIndex |-> j.correct_index, optionCount |-> j.option_count]]

\* The first byte of the trimmed, upper-cased answer, however long it is.
NormalizeLetterFirstByte(answer) ==
    LET letter == ToUpper(TrimSpace(answer))
    IN  IF letter = <<>> THEN <<>> ELSE <<letter[1]>>

\* normalizeLetter: "" unless the trimmed, upper-cased answer is one byte long
NormalizeLetter(answer) ==
    LET letter == ToUpper(TrimSpace(answer))
    IN  IF Len(letter) # 1 THEN <<>> ELSE letter

\* Every letter taken for the first option.
AnswerIndexOfFirstOption(letter) == 0

\* int(letter[0] - 'A'): the subtraction is on bytes and wraps modulo 256
AnswerIndex(letter) == (letter[1] - 65) % 256

\* Whether a response passes the checks that precede the INSERT.
ReachesInsert(lookup, response) ==
    /\ response.QuestionID \in DOMAIN lookup
    /\ NormalizeLetter(response.Answer) # <<>>
    /\ AnswerIndex(NormalizeLetter(response.Answer)) >= 0
    /\ AnswerIndex(NormalizeLetter(response.Answer))
          < lookup[response.QuestionID].optionCount

\* The loop over the responses of SubmitResponses.  st is the state of the
\* transaction: rows (attempts as the transaction sees them), results, wrote
\* (rows inserted so far), err.  c holds what does not change: lookup, quiz,
\* user, responses, t (the reading of time.Now()), failAt.
RECURSIVE SubmitLoop(_, _, _)
SubmitLoop(st, c, i) ==
    IF i > Len(c.responses) THEN st
    ELSE
      LET response == c.responses[i]
          qid      == response.QuestionID
          letter   == NormalizeLetter(response.Answer)
      IN  IF qid \notin DOMAIN c.lookup
          THEN SubmitLoop([st EXCEPT !.results =
                   Append(@, ResponseResult(qid, StatusInvalidQuestion, NilScore))], c, i + 1)
          ELSE IF letter = <<>>
          THEN SubmitLoop([st EXCEPT !.results =
                   Append(@, ResponseResult(qid, StatusInvalidLetter, NilScore))], c, i + 1)
          ELSE IF AnswerIndex(letter) < 0
                  \/ AnswerIndex(letter) >= c.lookup[qid].optionCount
          THEN SubmitLoop([st EXCEPT !.results =
                   Append(@, ResponseResult(qid, StatusInvalidLetter, NilScore))], c, i + 1)
          ELSE
            LET correct == AnswerIndex(letter) = c.lookup[qid].correctIndex
                status  == IF correct THEN StatusCorrect ELSE StatusIncorrect
                score   == IF correct THEN 1 ELSE 0
                row     == AttemptRow(c.quiz, qid, c.user, letter, score, c.t)
                ins     == InsertOrIgnoreAttempt(st.rows, row)
            IN  IF c.failAt = i
                THEN [st EXCEPT !.err = ErrStorage]
                ELSE IF ins.affected = 0
                THEN \* SELECT score FROM attempts WHERE <key> LIMIT 1
                     LET existing == CHOOSE r \in ins.rows : SameAttemptKey(r, row)
                     IN  SubmitLoop([st EXCEPT !.rows = ins.rows,
                                        !.results = Append(@, ResponseResult(
                                            qid, StatusAlreadyAnswered, existing.score))],
                                    c, i + 1)
                ELSE SubmitLoop([st EXCEPT !.rows = ins.rows, !.wrote = @ + 1,
                                    !.results = Append(@, ResponseResult(
                                        qid, status, NilScore))],
                                c, i + 1)

\* SQLiteStore.SubmitResponses.  t is the reading of time.Now(): the code reads
\* the clock once per INSERT, and the readings of one transaction are taken
\* to be one reading, because a transaction writes rows of one user only and
\* nothing reads a timestamp except through MAX per user.
\* failAt: 0 no storage failure, -1 BeginTx or the first SELECT fails,
\* k in 1..Len(responses) a statement for response k fails, Len+1 Commit fails.
\* Returns the attempts table, the results, the error, and the number of
\* rows the transaction had inserted when it ended.
StoreSubmitResponses(db, id, user, responses, t, failAt) ==
    LET lookup == QuestionLookup(db, id)
        fail(e, n) == [attempts |-> db.attempts, results |-> <<>>, err |-> e,
                       wrote |-> n]
    IN  IF failAt = -1 THEN fail(ErrStorage, 0)
        ELSE IF DOMAIN lookup = {} THEN fail(ErrQuizNotFound, 0)
        ELSE
          LET st0 == [rows |-> db.attempts, results |-> <<>>, wrote |-> 0,
                      err |-> ErrNone]
              c   == [lookup |-> lookup, quiz |-> id, user |-> user,
                      responses |-> responses, t |-> t, failAt |-> failAt]
              tx  == SubmitLoop(st0, c, 1)
          IN  IF tx.err # ErrNone \/ failAt = Len(responses) + 1
              THEN [attempts |-> Rollback(db.attempts, tx.rows), results |-> <<>>,
                    err |-> ErrStorage, wrote |-> tx.wrote]
              ELSE [attempts |-> tx.rows, results |-> tx.results, err |-> ErrNone,
                    wrote |-> tx.wrote]

\* The points at which a storage failure can hit a SubmitResponses call;
\* without faults the storage never fails.
SubmitFailPoints(db, id, responses, faults) ==
    LET lookup == QuestionLookup(db, id)
    IN  IF ~faults THEN {0}
        ELSE IF DOMAIN lookup = {} THEN {0, -1}
        ELSE {0, -1, Len(responses) + 1}
                \cup { i \in 1..Len(responses) : ReachesInsert(lookup, responses[i]) }

\* The points at which a storage failure can hit a CreateQuiz call.
CreateFailPoints(qs, faults) == IF faults THEN -1..(Len(qs) + 1) ELSE {0}

----------------------------------------------------------------------------
(* The store used directly, as its tests use it *)

Init ==
    /\ quizzes = {}
    /\ quiz_questions = {}
    /\ questions = {}
    /\ attempts = {}
    /\ now = 0
    /\ quizMetaCache = <<>>
    /\ quizQuestions = <<>>
    /\ leaderboardCache = <<>>
    /\ attemptScores = <<>>
    /\ last = Call("NewService", <<>>, <<>>, <<>>, <<>>, <<>>, ErrNone, NoCalls, 0, 0)
    /\ procs = <<>>
    /\ bank = <<>>

\* Time passes: the next time.Now() reads a later value.
Tick ==
    /\ now < MaxTime
    /\ now' = now + 1
    /\ UNCHANGED <<storeVars, cacheVars, last, procs, bank>>

\* store.CreateQuiz(ctx, metadata, questions)
DoStoreCreateQuiz(ids, sets, faults) ==
    \E id \in ids, qs \in sets :
      \E failAt \in CreateFailPoints(qs, faults) :
        LET r == StoreCreateQuiz(DB, QuizMetadata(id, Len(qs)), qs, failAt)
        IN  /\ quizzes' = r.db.quizzes
            /\ quiz_questions' = r.db.quiz_questions
            /\ questions' = r.db.questions
            /\ attempts' = r.db.attempts
            /\ last' = Call("store.CreateQuiz", id, <<>>, <<>>, <<>>, qs, r.err,
                            [NoCalls EXCEPT !.create = 1],
                            Cardinality(QuizAttempts(attempts, id)), 0)
            /\ UNCHANGED <<now, cacheVars, procs, bank>>

\* store.SubmitResponses(ctx, quizID, usernameNormalized, responses)
DoStoreSubmitResponses(ids, users, batches, faults) ==
    \E id \in ids, user \in users, responses \in batches :
      \E failAt \in SubmitFailPoints(DB, id, responses, faults) :
        LET r == StoreSubmitResponses(DB, id, user, responses, now, failAt)
        IN  /\ attempts' = r.attempts
            /\ last' = Call("store.SubmitResponses", id, user, responses, r.results,
                            <<>>, r.err, [NoCalls EXCEPT !.submit = 1],
                            Cardinality(QuizAttempts(attempts, id)), r.wrote)
            /\ UNCHANGED <<quizzes, quiz_questions, questions, now, cacheVars, procs, bank>>

\* store.GetLeaderboard(ctx, quizID)
DoStoreGetLeaderboard(ids) ==
    \E id \in ids :
        LET r == StoreGetLeaderboard(DB, id)
        IN  /\ last' = Call("store.GetLeaderboard", id, <<>>, <<>>, <<>>, r.value, r.err,
                            [NoCalls EXCEPT !.leaderboard = 1],
                            Cardinality(QuizAttempts(attempts, id)), 0)
            /\ UNCHANGED <<storeVars, now, cacheVars, procs, bank>>

\* store.GetAttemptScores(ctx, quizID, usernameNormalized)
DoStoreGetAttemptScores(ids, users) ==
    \E id \in ids, user \in users :
        LET r == StoreGetAttemptScores(DB, id, user)
        IN  /\ last' = Call("store.GetAttemptScores", id, user, <<>>, <<>>, r.value, r.err,
                            [NoCalls EXCEPT !.scores = 1],
                            Cardinality(QuizAttempts(attempts, id)), 0)
            /\ UNCHANGED <<storeVars, now, cacheVars, procs, bank>>

\* store.GetQuizQuestions(ctx, quizID)
DoStoreGetQuizQuestions(ids) ==
    \E id \in ids :
        LET r == StoreGetQuizQuestions(DB, id)
        IN  /\ last' = Call("store.GetQuizQuestions", id, <<>>, <<>>, <<>>, r.value, r.err,
                            [NoCalls EXCEPT !.questions = 1],
                            Cardinality(QuizAttempts(attempts, id)), 0)
            /\ UNCHANGED <<storeVars, now, cacheVars, procs, bank>>

\* Submissions and leaderboards of one quiz: two users answer question x
\* with either letter, one after the other.
NextStore ==
    \/ Tick
    \/ DoStoreCreateQuiz({Str_q}, { <<QuestionX, QuestionY>> }, FALSE)
    \/ DoStoreSubmitResponses({Str_q}, {Str_a, Str_b},
                              BatchesOf({Resp_xA, Resp_xb}), FALSE)
    \/ DoStoreGetLeaderboard({Str_q, Str_r})

SpecStore == Init /\ [][NextStore]_vars

\* One user submits batches over two questions while the storage may fail
\* at any statement of the transaction.
NextFault ==
    \/ Tick
    \/ DoStoreCreateQuiz({Str_q}, { <<QuestionX, QuestionY>> }, TRUE)
    \/ DoStoreSubmitResponses({Str_q}, {Str_a}, BatchesOf({Resp_xA, Resp_yA}), TRUE)

SpecFault == Init /\ [][NextFault]_vars

\* Batches of exactly one response.
SingleBatches(responses) == { <<r>> : r \in responses }

\* Two quizzes are created and created again with another question set
\* while one user answers them.
NextOverwrite ==
    \/ Tick
    \/ DoStoreCreateQuiz({Str_q, Str_r}, { <<QuestionX, QuestionY>>, <<QuestionY>> }, FALSE)
    \/ DoStoreSubmitResponses({Str_q, Str_r}, {Str_a},
                              SingleBatches({Resp_xA, Resp_yA}), FALSE)
    \/ DoStoreGetAttemptScores({Str_q}, {Str_a})
    \/ DoStoreGetQuizQuestions({Str_q})

SpecOverwrite == Init /\ [][NextOverwrite]_vars

----------------------------------------------------------------------------
(* Properties of the store *)

IsSubmit(call) == call.op = "store.SubmitResponses" /\ call.err = ErrNone

Scored(status) == status \in {StatusCorrect, StatusIncorrect}

ScoreOf(status) == IF status = StatusCorrect THEN 1 ELSE 0

\* Response j of a call names a question that result i of the call before it
\* scored, for the same quiz and user, and carries a valid letter.
Resubmits(before, i, after, j) ==
    /\ before.quiz = after.quiz
    /\ before.user = after.user
    /\ Scored(before.results[i].Status)
    /\ after.responses[j].QuestionID = before.results[i].QuestionID
    /\ ReachesInsert(QuestionLookup(DB, after.quiz), after.responses[j])

\* Response j of a call carries a valid letter for a question of the quiz
\* that neither a stored row nor an earlier response of the call answers for
\* the user.
FirstSubmission(call, j) ==
    /\ ReachesInsert(QuestionLookup(DB, call.quiz), call.responses[j])
    /\ \A r \in UserAttempts(attempts, call.quiz, call.user) :
         r.question_id # call.responses[j].QuestionID
    /\ \A k \in 1..(j - 1) :
         call.responses[k].QuestionID = call.responses[j].QuestionID =>
           ~ReachesInsert(QuestionLookup(DB, call.quiz), call.responses[k])

\* C1: of two successive submissions of the same (quiz, question, user) with
\* valid letters, the first is scored correct or incorrect and the second is
\* already_answered with the score of the first, whatever its letter; a call
\* that only resubmits leaves the user's total score and answered count as
\* they were.  The clock stands still while a call returns, so the steps with
\* now' = now are the calls.
C1_SecondSubmissionIsAlreadyAnswered ==
    [][ (IsSubmit(last) /\ IsSubmit(last') /\ now' = now) =>
          /\ \A i \in DOMAIN last.results, j \in DOMAIN last'.results :
                Resubmits(last, i, last', j) =>
                  /\ last'.results[j].Status = StatusAlreadyAnswered
                  /\ last'.results[j].AttemptScore = ScoreOf(last.results[i].Status)
          /\ \A j \in DOMAIN last'.results :
                FirstSubmission(last', j) => Scored(last'.results[j].Status)
          /\ (\A j \in DOMAIN last'.results :
                \E i \in DOMAIN last.results : Resubmits(last, i, last', j)) =>
                  /\ SumScore(UserAttempts(attempts', last'.quiz, last'.user))
                       = SumScore(UserAttempts(attempts, last'.quiz, last'.user))
                  /\ Cardinality(UserAttempts(attempts', last'.quiz, last'.user))
                       = Cardinality(UserAttempts(attempts, last'.quiz, last'.user))
      ]_vars

\* The second call gave the other letter for a question answered correctly
\* and was told already_answered with score 1.
C1_Witness ==
    /\ IsSubmit(last)
    /\ \E j \in DOMAIN last.results :
         /\ last.results[j].Status = StatusAlreadyAnswered
         /\ last.results[j].AttemptScore = 1
         /\ NormalizeLetter(last.responses[j].Answer) = <<66>>
         /\ last.responses[j].QuestionID = Str_x

AttemptKeysUnique ==
    \A r \in attempts, s \in attempts : SameAttemptKey(r, s) => r = s

\* C2: there is at most one attempt row per (quiz, question, user), and no
\* SubmitResponses call changes or removes a row that exists.
C2_FirstWriteWins ==
    /\ []AttemptKeysUnique
    /\ [][ last'.op = "store.SubmitResponses" => attempts \subseteq attempts' ]_vars

\* Both users have a row for question x, with different letters, and the
\* last call was answered already_answered.
C2_Witness ==
    /\ IsSubmit(last)
    /\ \E j \in DOMAIN last.results : last.results[j].Status = StatusAlreadyAnswered
    /\ \E r \in attempts, s \in attempts :
         /\ r.question_id = s.question_id
         /\ r.username_norm # s.username_norm
         /\ r.answer_letter # s.answer_letter

\* The ranking rule, written out: a is ranked before b.
RankedBefore(a, b) ==
    \/ a.TotalScore > b.TotalScore
    \/ a.TotalScore = b.TotalScore /\ a.LastSubmissionAt < b.LastSubmissionAt
    \/ /\ a.TotalScore = b.TotalScore
       /\ a.LastSubmissionAt = b.LastSubmissionAt
       /\ StrLess(a.Username, b.Username)

Str_alice == <<97, 108, 105, 99, 101>>
Str_bob   == <<98, 111, 98>>
Str_carol == <<99, 97, 114, 111, 108>>
Str_dave  == <<100, 97, 118, 101>>

\* The rows TestSQLiteStoreGetLeaderboardOrdering seeds.
ExampleAttempts ==
    { AttemptRow(Str_q, Str_x, Str_bob,   <<65>>, 1, 300),
      AttemptRow(Str_q, Str_y, Str_bob,   <<66>>, 1, 400),
      AttemptRow(Str_q, Str_x, Str_alice, <<65>>, 1, 100),
      AttemptRow(Str_q, Str_y, Str_alice, <<66>>, 1, 200),
      AttemptRow(Str_q, Str_x, Str_carol, <<65>>, 1, 500),
      AttemptRow(Str_q, Str_y, Str_dave,  <<65>>, 1, 500) }

Usernames(entries) == [i \in DOMAIN entries |-> entries[i].Username]

\* C7: GetLeaderboard fails with QuizNotFound for an unknown quiz; otherwise
\* it returns one entry per user with an attempt, holding the user's summed
\* score, row count and latest timestamp, ranked by score descending, then
\* last submission ascending, then username ascending; the rows of the
\* example rank alice, bob, carol, dave.
C7_LeaderboardRanking ==
    /\ last.op = "store.GetLeaderboard" =>
         IF ~QuizExists(DB, last.quiz)
         THEN last.err = ErrQuizNotFound /\ last.value = <<>>
         ELSE /\ last.err = ErrNone
              /\ { last.value[i].Username : i \in DOMAIN last.value }
                   = { r.username_norm : r \in QuizAttempts(attempts, last.quiz) }
              /\ \A i \in DOMAIN last.value :
                   LET e    == last.value[i]
                       rows == UserAttempts(attempts, last.quiz, e.Username)
                   IN  /\ e.TotalScore = SumScore(rows)
                       /\ e.AnsweredCount = Cardinality(rows)
                       /\ \A r \in rows : r.submitted_at_unix <= e.LastSubmissionAt
                       /\ \E r \in rows : r.submitted_at_unix = e.LastSubmissionAt
              /\ \A i \in DOMAIN last.value, j \in DOMAIN last.value :
                   i < j => RankedBefore(last.value[i], last.value[j])
    /\ Usernames(OrderBy(GroupByUser(ExampleAttempts, Str_q)))
         = <<Str_alice, Str_bob, Str_carol, Str_dave>>

\* A leaderboard was read on which two users tie on the score and the
\* earlier last submission decides.
C7_Witness ==
    /\ last.op = "store.GetLeaderboard"
    /\ last.err = ErrNone
    /\ Len(last.value) = 2
    /\ last.value[1].TotalScore = last.value[2].TotalScore
    /\ last.value[1].LastSubmissionAt < last.value[2].LastSubmissionAt
    /\ StrLess(last.value[2].Username, last.value[1].Username)

\* C9: CreateQuiz on an existing quiz id replaces its question list by the new
\* set and leaves no attempt of that quiz: GetAttemptScores is empty for every
\* user and the leaderboard is empty; the attempts of other quizzes stay.
C9_OverwriteClearsAttempts ==
    [][ (last'.op = "store.CreateQuiz" /\ last'.err = ErrNone) =>
          /\ StoreGetQuizQuestions(DB', last'.quiz).value = last'.value
          /\ QuizAttempts(attempts', last'.quiz) = {}
          /\ \A u \in {Str_a, Str_b} :
               StoreGetAttemptScores(DB', last'.quiz, u).value = <<>>
          /\ StoreGetLeaderboard(DB', last'.quiz).value = <<>>
          /\ StoreGetLeaderboard(DB', last'.quiz).err = ErrNone
          /\ { r \in attempts' : r.quiz_id # last'.quiz }
               = { r \in attempts : r.quiz_id # last'.quiz }
      ]_vars

\* A quiz that had attempts was created again while the other quiz has
\* attempts too.
C9_Witness ==
    /\ last.op = "store.CreateQuiz"
    /\ last.err = ErrNone
    /\ last.pre > 0
    /\ \E r \in attempts : r.quiz_id # last.quiz

\* C10: a SubmitResponses call that ends with a storage failure returns no
\* results and leaves the attempts table as it was before the call, also
\* when the transaction had inserted rows.
C10_FailedSubmitRollsBack ==
    [][ (last'.op = "store.SubmitResponses" /\ last'.err = ErrStorage) =>
          /\ attempts' = attempts
          /\ last'.results = <<>>
      ]_vars

\* A call failed after its transaction had inserted a row.
C10_Witness ==
    /\ last.op = "store.SubmitResponses"
    /\ last.err = ErrStorage
    /\ last.wrote > 0

----------------------------------------------------------------------------
(* The Service: read-through caches in front of the store *)

\* A Go map as a function; m[k] = v
MapPut(m, k, v) == [x \in (DOMAIN m) \cup {k} |-> IF x = k THEN v ELSE m[x]]

Caches == [quizMetaCache |-> quizMetaCache, quizQuestions |-> quizQuestions,
           leaderboardCache |-> leaderboardCache, attemptScores |-> attemptScores]

\* What a handler works on: the store, the caches of the Service, and the
\* count of the store calls the handler has made.
World == [db |-> DB, cache |-> Caches, calls |-> NoCalls]

CountCall(w, kind) == [w EXCEPT !.calls[kind] = @ + 1]

NoMetadata == QuizMetadata(<<>>, 0)

setCachedQuizMetadata(w, metadata) ==
    [w EXCEPT !.cache.quizMetaCache = MapPut(@, metadata.QuizID, metadata)]

\* The metadata cached without the questions.
setCachedQuizWithoutQuestions(w, metadata, qs) ==
    [w EXCEPT !.cache.quizMetaCache = MapPut(@, metadata.QuizID, metadata)]

setCachedQuiz(w, metadata, qs) ==
    [w EXCEPT !.cache.quizMetaCache = MapPut(@, metadata.QuizID, metadata),
              !.cache.quizQuestions = MapPut(@, metadata.QuizID, qs)]

\* getCachedQuiz: both maps must hold the key
CachedQuizHit(w, quizID) ==
    /\ quizID \in DOMAIN w.cache.quizMetaCache
    /\ quizID \in DOMAIN w.cache.quizQuestions

\* quizID + "::" + usernameNormalized
attemptScoresCacheKey(quizID, usernameNormalized) ==
    quizID \o <<58, 58>> \o usernameNormalized

\* The username trimmed but left in the case it was given in.
normalizeUsernameKeepsCase(username) == TrimSpace(username)

\* The username in lower case with its white space kept.
normalizeUsernameKeepsSpace(username) == ToLower(username)

\* normalizeUsername: "" stands for the error ErrInvalidUsername
normalizeUsername(username) == ToLower(TrimSpace(username))

\* What the fetcher and BuildQuestions can hand to createQuizWithID.
FetchOutcomes(sets, faults) ==
    { [questions |-> qs, err |-> ErrNone] : qs \in sets }
      \cup (IF faults THEN { [questions |-> <<>>, err |-> ErrFetch] } ELSE {})

\* The fetcher is not called.
NoFetch == [questions |-> <<>>, err |-> ErrNone]

\* createQuizWithID after s.quizzes.CreateQuiz failed: the lookup of the quiz
createQuizLookup(w, createErr, again) ==
    IF again.err = ErrNone
    THEN [w |-> setCachedQuizMetadata(CountCall(w, "metadata"), again.value),
          metadata |-> again.value, err |-> ErrNone]
    ELSE [w |-> CountCall(w, "metadata"), metadata |-> NoMetadata, err |-> createErr]

\* createQuizWithID after its call of s.quizzes.CreateQuiz
createQuizStored(w, quizID, metadata, qs, created) ==
    IF created.err # ErrNone
    THEN createQuizLookup([w EXCEPT !.db = created.db], created.err,
                          StoreGetQuizMetadata(created.db, quizID))
    ELSE [w |-> setCachedQuiz([w EXCEPT !.db = created.db], metadata, qs),
          metadata |-> metadata, err |-> ErrNone]

\* The quiz stored with whatever the fetcher handed over, its error unread.
createQuizFetchedUnchecked(w, quizID, fetch, failAt) ==
    createQuizStored(CountCall(w, "create"), quizID,
                     QuizMetadata(quizID, Len(fetch.questions)), fetch.questions,
                     StoreCreateQuiz(w.db, QuizMetadata(quizID, Len(fetch.questions)),
                                     fetch.questions, failAt))

\* createQuizWithID from the call of the fetcher to s.quizzes.CreateQuiz
createQuizFetched(w, quizID, fetch, failAt) ==
    IF fetch.err # ErrNone
    THEN [w |-> w, metadata |-> NoMetadata, err |-> fetch.err]
    ELSE createQuizStored(CountCall(w, "create"), quizID,
                          QuizMetadata(quizID, Len(fetch.questions)), fetch.questions,
                          StoreCreateQuiz(w.db, QuizMetadata(quizID, Len(fetch.questions)),
                                          fetch.questions, failAt))

\* createQuizWithID after its call of s.quizzes.GetQuizMetadata
createQuizLookedUp(w, quizID, fetch, failAt, existing) ==
    IF existing.err = ErrNone
    THEN [w |-> setCachedQuizMetadata(w, existing.value),
          metadata |-> existing.value, err |-> ErrNone]
    ELSE createQuizFetched(CountCall(w, "fetch"), quizID, fetch, failAt)

\* The fetcher is called and the quiz stored without a look at the cache or
\* the store.
createQuizWithIDUnchecked(w, quizID, fetch, failAt) ==
    createQuizFetched(CountCall(w, "fetch"), quizID, fetch, failAt)

\* Service.createQuizWithID; the Service is constructed with a fetcher.
createQuizWithID(w, quizID, fetch, failAt) ==
    IF quizID \in DOMAIN w.cache.quizMetaCache
    THEN [w |-> w, metadata |-> w.cache.quizMetaCache[quizID], err |-> ErrNone]
    ELSE createQuizLookedUp(CountCall(w, "metadata"), quizID, fetch, failAt,
                            StoreGetQuizMetadata(w.db, quizID))

\* Service.CreateQuiz; quizID is the id generateQuizID has drawn.
CreateQuiz(w, quizID, fetch, failAt) == createQuizWithID(w, quizID, fetch, failAt)

\* Service.EnsureQuiz after its call of s.quizzes.GetQuizMetadata
EnsureQuizLookedUp(w, quizID, createIfMissing, fetch, failAt, found) ==
    IF found.err = ErrNone
    THEN [w |-> setCachedQuizMetadata(w, found.value),
          metadata |-> found.value, err |-> ErrNone]
    ELSE IF ~createIfMissing
    THEN [w |-> w, metadata |-> NoMetadata, err |-> ErrQuizNotFound]
    ELSE createQuizWithID(w, quizID, fetch, failAt)

\* Service.EnsureQuiz on the trimmed id
EnsureQuizTrimmed(w, quizID, createIfMissing, fetch, failAt) ==
    IF quizID = <<>>
    THEN [w |-> w, metadata |-> NoMetadata, err |-> ErrQuizNotFound]
    ELSE IF quizID \in DOMAIN w.cache.quizMetaCache
    THEN [w |-> w, metadata |-> w.cache.quizMetaCache[quizID], err |-> ErrNone]
    ELSE EnsureQuizLookedUp(CountCall(w, "metadata"), quizID, createIfMissing, fetch,
                            failAt, StoreGetQuizMetadata(w.db, quizID))

\* Service.EnsureQuiz
EnsureQuiz(w, rawQuizID, createIfMissing, fetch, failAt) ==
    EnsureQuizTrimmed(w, TrimSpace(rawQuizID), createIfMissing, fetch, failAt)

\* Service.GetQuizQuestions after its call of s.quizzes.GetQuizQuestions
GetQuizQuestionsRead(w, metadata, r) ==
    IF r.err # ErrNone
    THEN [w |-> w, metadata |-> NoMetadata, questions |-> <<>>, err |-> r.err]
    ELSE [w |-> setCachedQuiz(w, metadata, r.value),
          metadata |-> metadata, questions |-> r.value, err |-> ErrNone]

\* Service.GetQuizQuestions after its call of EnsureQuiz
GetQuizQuestionsEnsured(e) ==
    IF e.err # ErrNone
    THEN [w |-> e.w, metadata |-> NoMetadata, questions |-> <<>>, err |-> e.err]
    ELSE GetQuizQuestionsRead(CountCall(e.w, "questions"), e.metadata,
                              StoreGetQuizQuestions(e.w.db, e.metadata.QuizID))

\* Service.GetQuizQuestions: the cache is looked up under the id as given,
\* and filled under the id of the metadata.
GetQuizQuestions(w, quizID, createIfMissing, fetch, failAt) ==
    IF CachedQuizHit(w, quizID)
    THEN [w |-> w, metadata |-> w.cache.quizMetaCache[quizID],
          questions |-> w.cache.quizQuestions[quizID], err |-> ErrNone]
    ELSE GetQuizQuestionsEnsured(EnsureQuiz(w, quizID, createIfMissing, fetch, failAt))

\* leaderboardBefore: whether entry a ranks before entry b
leaderboardBefore(a, b) ==
    IF a.TotalScore # b.TotalScore THEN a.TotalScore > b.TotalScore
    ELSE IF a.LastSubmissionAt # b.LastSubmissionAt
         THEN a.LastSubmissionAt < b.LastSubmissionAt
    ELSE StrLess(a.Username, b.Username)

\* swapLeaderboardEntries that leaves the username-to-index map as it was.
swapLeaderboardEntriesKeepsIndex(cache, i, j) ==
    [cache EXCEPT !.ordered = [cache.ordered EXCEPT ![i] = cache.ordered[j],
                                                    ![j] = cache.ordered[i]]]

\* swapLeaderboardEntries.  Positions count from 1 here, from 0 in the code.
swapLeaderboardEntries(cache, i, j) ==
    LET ordered == [cache.ordered EXCEPT ![i] = cache.ordered[j],
                                         ![j] = cache.ordered[i]]
    IN  [ordered |-> ordered,
         indexByUser |-> MapPut(MapPut(cache.indexByUser, ordered[i].Username, i),
                                ordered[j].Username, j)]

\* bubbleLeaderboard, first loop: towards the head
RECURSIVE BubbleUp(_, _)
BubbleUp(cache, idx) ==
    IF idx > 1 /\ leaderboardBefore(cache.ordered[idx], cache.ordered[idx - 1])
    THEN BubbleUp(swapLeaderboardEntries(cache, idx, idx - 1), idx - 1)
    ELSE [cache |-> cache, idx |-> idx]

\* bubbleLeaderboard, second loop: towards the tail
RECURSIVE BubbleDown(_, _)
BubbleDown(cache, idx) ==
    IF idx + 1 <= Len(cache.ordered)
       /\ leaderboardBefore(cache.ordered[idx + 1], cache.ordered[idx])
    THEN BubbleDown(swapLeaderboardEntries(cache, idx, idx + 1), idx + 1)
    ELSE cache

\* bubbleLeaderboard without its second loop.
bubbleLeaderboardUpOnly(cache, idx) == BubbleUp(cache, idx).cache

bubbleLeaderboard(cache, idx) ==
    LET up == BubbleUp(cache, idx) IN BubbleDown(up.cache, up.idx)

\* setCachedLeaderboard: the index is filled front to back, a later position
\* of a username replaces an earlier one
setCachedLeaderboard(lbc, quizID, entries) ==
    MapPut(lbc, quizID,
           [ordered |-> entries,
            indexByUser |->
              [u \in { entries[i].Username : i \in DOMAIN entries } |->
                 CHOOSE i \in DOMAIN entries :
                   /\ entries[i].Username = u
                   /\ \A k \in DOMAIN entries : entries[k].Username = u => k <= i]])

\* A count of new answers that takes the duplicates in as well.
CountsAlreadyAnswered(status) ==
    status \in {StatusCorrect, StatusIncorrect, StatusAlreadyAnswered}

\* The statuses updateCachedLeaderboardAfterSubmission counts as new answers.
CountsAsNewAnswer(status) == status \in {StatusCorrect, StatusIncorrect}

NewAnswers(results) ==
    Cardinality({ i \in DOMAIN results : CountsAsNewAnswer(results[i].Status) })

\* A score delta that takes every new answer for a correct one.
ScoreDeltaOfEveryNewAnswer(results) ==
    Cardinality({ i \in DOMAIN results : Scored(results[i].Status) })

ScoreDelta(results) ==
    Cardinality({ i \in DOMAIN results : results[i].Status = StatusCorrect })

\* updateCachedLeaderboardAfterSubmission on the map of leaderboard caches;
\* t is the reading of time.Now() it takes.
updateCachedLeaderboardAfterSubmission(lbc, quizID, username, results, t) ==
    IF quizID \notin DOMAIN lbc THEN lbc
    ELSE IF NewAnswers(results) = 0 THEN lbc
    ELSE
      LET cache == lbc[quizID]
      IN  IF username \notin DOMAIN cache.indexByUser
          THEN LET idx == Len(cache.ordered) + 1
                   appended ==
                     [ordered |-> Append(cache.ordered,
                                    LeaderboardEntry(username, ScoreDelta(results),
                                                     NewAnswers(results), t)),
                      indexByUser |-> MapPut(cache.indexByUser, username, idx)]
               IN  MapPut(lbc, quizID, bubbleLeaderboard(appended, idx))
          ELSE LET idx == cache.indexByUser[username]
                   patched ==
                     [cache EXCEPT !.ordered[idx] =
                        [@ EXCEPT !.TotalScore = @ + ScoreDelta(results),
                                  !.AnsweredCount = @ + NewAnswers(results),
                                  !.LastSubmissionAt = t]]
               IN  MapPut(lbc, quizID, bubbleLeaderboard(patched, idx))

\* The cached scores left as they are.
PatchScoresNotAtAll(scores, results, i) == scores

\* The loop of updateCachedAttemptScoresAfterSubmission over the results
RECURSIVE PatchScores(_, _, _)
PatchScores(scores, results, i) ==
    IF i > Len(results) THEN scores
    ELSE
      LET result == results[i]
      IN  IF result.Status = StatusCorrect
          THEN PatchScores(MapPut(scores, result.QuestionID, 1), results, i + 1)
          ELSE IF result.Status = StatusIncorrect
          THEN PatchScores(MapPut(scores, result.QuestionID, 0), results, i + 1)
          ELSE IF result.Status = StatusAlreadyAnswered /\ result.AttemptScore # NilScore
          THEN PatchScores(MapPut(scores, result.QuestionID, result.AttemptScore),
                           results, i + 1)
          ELSE PatchScores(scores, results, i + 1)

\* A patch that starts an entry for a key that is not cached.
updateOrCreateCachedAttemptScores(asc, quizID, usernameNormalized, results) ==
    MapPut(asc, attemptScoresCacheKey(quizID, usernameNormalized),
           PatchScores(IF attemptScoresCacheKey(quizID, usernameNormalized)
                            \in DOMAIN asc
                       THEN asc[attemptScoresCacheKey(quizID, usernameNormalized)]
                       ELSE <<>>,
                       results, 1))

updateCachedAttemptScoresAfterSubmission(asc, quizID, usernameNormalized, results) ==
    LET key == attemptScoresCacheKey(quizID, usernameNormalized)
    IN  IF key \notin DOMAIN asc THEN asc
        ELSE MapPut(asc, key, PatchScores(asc[key], results, 1))

\* The entries whatever the limit is.
applyNoLeaderboardLimit(entries, limit) == entries

applyLeaderboardLimit(entries, limit) ==
    IF limit <= 0 \/ limit >= Len(entries) THEN entries
    ELSE SubSeq(entries, 1, limit)

\* A Service that drops the cached leaderboard and the cached scores of the
\* quiz when the store fails.
SubmitResponsesStoredInvalidating(w, quizID, usernameNormalized, r, t2) ==
    [w |-> [w EXCEPT
              !.db.attempts = r.attempts,
              !.cache.leaderboardCache = [k \in DOMAIN @ \ {quizID} |-> @[k]],
              !.cache.attemptScores =
                 [k \in DOMAIN @ \ {attemptScoresCacheKey(quizID, usernameNormalized)}
                    |-> @[k]]],
     results |-> <<>>, err |-> r.err, wrote |-> r.wrote]

\* Service.SubmitResponses after its call of s.attempts.SubmitResponses
SubmitResponsesStored(w, quizID, usernameNormalized, r, t2) ==
    IF r.err # ErrNone
    THEN [w |-> [w EXCEPT !.db.attempts = r.attempts], results |-> <<>>,
          err |-> r.err, wrote |-> r.wrote]
    ELSE [w |-> [w EXCEPT
                   !.db.attempts = r.attempts,
                   !.cache.leaderboardCache =
                     updateCachedLeaderboardAfterSubmission(
                       @, quizID, usernameNormalized, r.results, t2),
                   !.cache.attemptScores =
                     updateCachedAttemptScoresAfterSubmission(
                       @, quizID, usernameNormalized, r.results)],
          results |-> r.results, err |-> ErrNone, wrote |-> r.wrote]

\* Service.SubmitResponses after its call of EnsureQuiz
SubmitResponsesEnsured(e, usernameNormalized, responses, t, t2, failAt) ==
    IF e.err # ErrNone
    THEN [w |-> e.w, results |-> <<>>, err |-> e.err, wrote |-> 0]
    ELSE IF usernameNormalized = <<>>
    THEN [w |-> e.w, results |-> <<>>, err |-> ErrInvalidUsername, wrote |-> 0]
    ELSE SubmitResponsesStored(
           CountCall(e.w, "submit"), e.metadata.QuizID, usernameNormalized,
           StoreSubmitResponses(e.w.db, e.metadata.QuizID, usernameNormalized,
                                responses, t, failAt),
           t2)

\* Service.SubmitResponses.  t is the reading of time.Now() in the store's
\* transaction, t2 the later reading in updateCachedLeaderboardAfterSubmission.
SubmitResponses(w, quizID, username, responses, t, t2, failAt) ==
    SubmitResponsesEnsured(EnsureQuiz(w, quizID, FALSE, NoFetch, 0),
                           normalizeUsername(username), responses, t, t2, failAt)

\* Service.GetLeaderboard after its call of s.attempts.GetLeaderboard
GetLeaderboardRead(w, quizID, limit, r) ==
    IF r.err # ErrNone
    THEN [w |-> w, value |-> <<>>, err |-> r.err]
    ELSE [w |-> [w EXCEPT !.cache.leaderboardCache =
                            setCachedLeaderboard(@, quizID, r.value)],
          value |-> applyLeaderboardLimit(r.value, limit), err |-> ErrNone]

\* Service.GetLeaderboard after its call of EnsureQuiz
GetLeaderboardEnsured(e, limit) ==
    IF e.err # ErrNone
    THEN [w |-> e.w, value |-> <<>>, err |-> e.err]
    ELSE IF e.metadata.QuizID \in DOMAIN e.w.cache.leaderboardCache
    THEN [w |-> e.w,
          value |-> applyLeaderboardLimit(
                      e.w.cache.leaderboardCache[e.metadata.QuizID].ordered, limit),
          err |-> ErrNone]
    ELSE GetLeaderboardRead(CountCall(e.w, "leaderboard"), e.metadata.QuizID, limit,
                            StoreGetLeaderboard(e.w.db, e.metadata.QuizID))

\* Service.GetLeaderboard
GetLeaderboard(w, quizID, limit) ==
    GetLeaderboardEnsured(EnsureQuiz(w, quizID, FALSE, NoFetch, 0), limit)

\* Service.GetAttemptScores after its call of s.attempts.GetAttemptScores
GetAttemptScoresRead(w, key, r) ==
    IF r.err # ErrNone
    THEN [w |-> w, value |-> <<>>, err |-> r.err]
    ELSE [w |-> [w EXCEPT !.cache.attemptScores = MapPut(@, key, r.value)],
          value |-> r.value, err |-> ErrNone]

\* Service.GetAttemptScores after its call of EnsureQuiz
GetAttemptScoresEnsured(e, usernameNormalized, key) ==
    IF e.err # ErrNone
    THEN [w |-> e.w, value |-> <<>>, err |-> e.err]
    ELSE IF usernameNormalized = <<>>
    THEN [w |-> e.w, value |-> <<>>, err |-> ErrInvalidUsername]
    ELSE IF key \in DOMAIN e.w.cache.attemptScores
    THEN [w |-> e.w, value |-> e.w.cache.attemptScores[key], err |-> ErrNone]
    ELSE GetAttemptScoresRead(
           CountCall(e.w, "scores"), key,
           StoreGetAttemptScores(e.w.db, e.metadata.QuizID, usernameNormalized))

\* The call of EnsureQuiz by the handlers that do not create a quiz
EnsureExisting(w, quizID) == EnsureQuiz(w, quizID, FALSE, NoFetch, 0)

\* Service.GetAttemptScores
GetAttemptScores(w, quizID, username) ==
    GetAttemptScoresEnsured(
        EnsureExisting(w, quizID), normalizeUsername(username),
        attemptScoresCacheKey(EnsureExisting(w, quizID).metadata.QuizID,
                              normalizeUsername(username)))

----------------------------------------------------------------------------
(* The Service called by one caller at a time *)

\* The handler's world becomes the state.
Commit(w) ==
    /\ quizzes' = w.db.quizzes
    /\ quiz_questions' = w.db.quiz_questions
    /\ questions' = w.db.questions
    /\ attempts' = w.db.attempts
    /\ quizMetaCache' = w.cache.quizMetaCache
    /\ quizQuestions' = w.cache.quizQuestions
    /\ leaderboardCache' = w.cache.leaderboardCache
    /\ attemptScores' = w.cache.attemptScores

PreRows(rawQuizID) == Cardinality(QuizAttempts(attempts, TrimSpace(rawQuizID)))

\* What a handler returns, as the fields of the record of the call.
ReturnedResults(op, r) ==
    IF op \in {"Service.SubmitResponses", "API.HandleResponses"} THEN r.results
    ELSE <<>>

ReturnedValue(op, r) ==
    IF op \in {"Service.EnsureQuiz", "Service.CreateQuiz"} THEN r.metadata
    ELSE IF op = "Service.GetQuizQuestions" THEN <<r.metadata, r.questions>>
    ELSE IF op = "Service.SubmitResponses" THEN <<>>
    ELSE IF op = "API.HandleResponses" THEN <<r.code, r.warnings>>
    ELSE r.value

ReturnedWrote(op, r) ==
    IF op \in {"Service.SubmitResponses", "API.HandleResponses"} THEN r.wrote ELSE 0

\* The handler op returns r: its world becomes the state, the call is recorded.
Returns(r, op, id, user, responses, limit) ==
    /\ Commit(r.w)
    /\ last' = [Call(op, id, user, responses, ReturnedResults(op, r),
                     ReturnedValue(op, r), r.err, r.w.calls, PreRows(id),
                     ReturnedWrote(op, r)) EXCEPT !.limit = limit]

\* service.EnsureQuiz(ctx, quizID, createIfMissing, questionCount)
SvcEnsureQuiz(ids, creates, sets, faults) ==
    \E id \in ids, create \in creates, fetch \in FetchOutcomes(sets, faults) :
      \E failAt \in CreateFailPoints(fetch.questions, faults) :
        /\ Returns(EnsureQuiz(World, id, create, fetch, failAt), "Service.EnsureQuiz",
                   id, <<>>, <<>>, 0)
        /\ UNCHANGED <<now, procs, bank>>

\* service.CreateQuiz(ctx, questionCount); the generated id is one of ids.
SvcCreateQuiz(ids, sets, faults) ==
    \E id \in ids, fetch \in FetchOutcomes(sets, faults) :
      \E failAt \in CreateFailPoints(fetch.questions, faults) :
        /\ Returns(CreateQuiz(World, id, fetch, failAt), "Service.CreateQuiz",
                   id, <<>>, <<>>, 0)
        /\ UNCHANGED <<now, procs, bank>>

\* service.GetQuizQuestions(ctx, quizID, createIfMissing, questionCount)
SvcGetQuizQuestions(ids, creates, sets, faults) ==
    \E id \in ids, create \in creates, fetch \in FetchOutcomes(sets, faults) :
      \E failAt \in CreateFailPoints(fetch.questions, faults) :
        /\ Returns(GetQuizQuestions(World, id, create, fetch, failAt),
                   "Service.GetQuizQuestions", id, <<>>, <<>>, 0)
        /\ UNCHANGED <<now, procs, bank>>

\* service.SubmitResponses(ctx, quizID, username, responses); the clock
\* advances by d between the store's transaction and the cache update.
SvcSubmitResponses(ids, users, batches, ds, faults) ==
    \E id \in ids, user \in users, responses \in batches, d \in ds :
      \E failAt \in SubmitFailPoints(DB, TrimSpace(id), responses, faults) :
        /\ now + d <= MaxTime
        /\ Returns(SubmitResponses(World, id, user, responses, now, now + d, failAt),
                   "Service.SubmitResponses", id, user, responses, 0)
        /\ now' = now + d
        /\ UNCHANGED <<procs, bank>>

\* service.GetLeaderboard(ctx, quizID, limit)
SvcGetLeaderboard(ids, limits) ==
    \E id \in ids, limit \in limits :
        /\ Returns(GetLeaderboard(World, id, limit), "Service.GetLeaderboard",
                   id, <<>>, <<>>, limit)
        /\ UNCHANGED <<now, procs, bank>>

\* service.GetAttemptScores(ctx, quizID, username)
SvcGetAttemptScores(ids, users) ==
    \E id \in ids, user \in users :
        /\ Returns(GetAttemptScores(World, id, user), "Service.GetAttemptScores",
                   id, user, <<>>, 0)
        /\ UNCHANGED <<now, procs, bank>>

Str_B_padded == <<32, 66>>
Str_A_padded == <<32, 65>>
Str_q_padded == <<32, 113>>

\* Two users answer a quiz of two questions through the Service, one call
\* after the other, and the leaderboard is read; the clock stands still.
NextSvc ==
    \/ SvcEnsureQuiz({Str_q}, {TRUE}, { <<QuestionX, QuestionY>> }, FALSE)
    \/ SvcSubmitResponses({Str_q}, {Str_a, Str_B_padded},
                          SingleBatches({Resp_xA, Resp_xb, Resp_yA})
                            \cup { <<Resp_xA, Resp_yA>>, <<Resp_xb, Resp_xA>> },
                          {0}, FALSE)
    \/ SvcGetLeaderboard({Str_q}, {0})

SpecSvc == Init /\ [][NextSvc]_vars

\* Two users answer a quiz of one question through the Service while the
\* clock advances, between calls and inside them.
NextSvcClock ==
    \/ Tick
    \/ SvcEnsureQuiz({Str_q}, {TRUE}, { <<QuestionX>> }, FALSE)
    \/ SvcSubmitResponses({Str_q}, {Str_a, Str_b}, SingleBatches({Resp_xA, Resp_xb}),
                          {0, 1}, FALSE)
    \/ SvcGetLeaderboard({Str_q}, {0})

SpecSvcClock == Init /\ [][NextSvcClock]_vars

\* The four reads of the Service, with ids and usernames written in two ways.
NextReads ==
    \/ SvcEnsureQuiz({Str_q, Str_q_padded}, {TRUE, FALSE}, { <<QuestionX>> }, FALSE)
    \/ SvcGetQuizQuestions({Str_q, Str_q_padded}, {FALSE}, { <<QuestionX>> }, FALSE)
    \/ SvcGetLeaderboard({Str_q}, {0, 1})
    \/ SvcGetAttemptScores({Str_q}, {Str_a, Str_A_padded})
    \/ SvcSubmitResponses({Str_q}, {Str_a, Str_b}, SingleBatches({Resp_xA}), {0}, FALSE)

SpecReads == Init /\ [][NextReads]_vars

----------------------------------------------------------------------------
(* Properties of the Service called by one caller at a time *)

\* C4: whenever the leaderboard of a quiz is cached, the usernames of the
\* cached leaderboard are in the order in which the store's GetLeaderboard
\* returns them from the attempts of that moment.
C4_CachedOrderEqualsAggregation ==
    \A id \in DOMAIN leaderboardCache :
        Usernames(leaderboardCache[id].ordered)
          = Usernames(StoreGetLeaderboard(DB, id).value)

Totals(entries) ==
    { [Username |-> e.Username, TotalScore |-> e.TotalScore,
       AnsweredCount |-> e.AnsweredCount] : e \in entries }

\* C5: whenever the leaderboard of a quiz is cached, it holds exactly one
\* entry for each user with an attempt on the quiz, and the entry's total
\* score and answered count are the sum of the scores and the number of the
\* user's attempt rows.
C5_CachedTotalsEqualAggregation ==
    \A id \in DOMAIN leaderboardCache :
        LET ordered == leaderboardCache[id].ordered
        IN  /\ Totals({ ordered[i] : i \in DOMAIN ordered })
                 = Totals(GroupByUser(attempts, id))
            /\ \A i \in DOMAIN ordered, j \in DOMAIN ordered :
                 ordered[i].Username = ordered[j].Username => i = j

\* A call that brought one new answer and one duplicate has updated the
\* cached entry of a user in place, next to the entry of another user.
C5_Witness ==
    /\ last.op = "Service.SubmitResponses"
    /\ last.err = ErrNone
    /\ \E i \in DOMAIN last.results : last.results[i].Status = StatusAlreadyAnswered
    /\ \E i \in DOMAIN last.results : Scored(last.results[i].Status)
    /\ Str_q \in DOMAIN leaderboardCache
    /\ Len(leaderboardCache[Str_q].ordered) = 2
    /\ \E i \in DOMAIN leaderboardCache[Str_q].ordered :
         /\ leaderboardCache[Str_q].ordered[i].Username = normalizeUsername(last.user)
         /\ leaderboardCache[Str_q].ordered[i].AnsweredCount = 2

ReadResult(op, r) == [calls |-> r.w.calls, value |-> ReturnedValue(op, r), err |-> r.err]

\* The read that has just returned, made once more in the state it left.
ReadAgain ==
    IF last.op = "Service.EnsureQuiz"
    THEN ReadResult(last.op, EnsureQuiz(World, last.quiz, FALSE, NoFetch, 0))
    ELSE IF last.op = "Service.GetQuizQuestions"
    THEN ReadResult(last.op, GetQuizQuestions(World, last.quiz, FALSE, NoFetch, 0))
    ELSE IF last.op = "Service.GetLeaderboard"
    THEN ReadResult(last.op, GetLeaderboard(World, last.quiz, last.limit))
    ELSE ReadResult(last.op, GetAttemptScores(World, last.quiz, last.user))

IsRead(op) ==
    op \in {"Service.GetQuizQuestions", "Service.EnsureQuiz",
            "Service.GetLeaderboard", "Service.GetAttemptScores"}

\* C8: after a successful read of the Service, the same read made again
\* with nothing written in between makes no store call and returns the value
\* the first read returned.
C8_SecondReadMakesNoStoreCall ==
    (IsRead(last.op) /\ last.err = ErrNone) =>
        /\ ReadAgain.err = ErrNone
        /\ ReadAgain.calls = NoCalls
        /\ ReadAgain.value = last.value

----------------------------------------------------------------------------
(* The Service serving concurrent requests *)

\* procs holds the requests in flight and the ones that have completed, by
\* number.  A request is served by its own goroutine; the caches are not
\* locked, so the other requests take steps between a request's store call
\* and its cache update.  The store has one connection (SetMaxOpenConns(1)):
\* a transaction holds it from BeginTx to Commit, so a store call is one step.
Request(pc, op, quiz, user, responses, limit) ==
    [pc |-> pc, op |-> op, quiz |-> quiz, user |-> user, responses |-> responses,
     limit |-> limit, results |-> <<>>, value |-> <<>>, err |-> ErrNone]

\* The number the next request gets.
NextRequest == Cardinality(DOMAIN procs) + 1

CanAccept == NextRequest <= MaxRequests

\* A request for service.SubmitResponses arrives.
ConcSubmitCall(ids, users, batches) ==
    \E id \in ids, user \in users, responses \in batches :
        /\ CanAccept
        /\ procs' = MapPut(procs, NextRequest,
                           Request("submit.store", "Service.SubmitResponses",
                                   id, user, responses, 0))
        /\ UNCHANGED <<storeVars, cacheVars, now, last, bank>>

\* SubmitResponses has come to the return of s.attempts.SubmitResponses, or
\* to its own return with an error: e is what EnsureQuiz returned, r what the
\* store returned.  The leaderboard and score caches are not touched yet.
SubmitStored(p, e, usernameNormalized, r) ==
    IF e.err # ErrNone \/ usernameNormalized = <<>>
    THEN /\ Commit(e.w)
         /\ procs' = [procs EXCEPT ![p].pc = "done",
                        ![p].err = IF e.err # ErrNone THEN e.err
                                   ELSE ErrInvalidUsername]
    ELSE /\ Commit([e.w EXCEPT !.db.attempts = r.attempts])
         /\ procs' = [procs EXCEPT
                        ![p].pc = IF r.err = ErrNone THEN "submit.patch" ELSE "done",
                        ![p].quiz = e.metadata.QuizID,
                        ![p].user = usernameNormalized,
                        ![p].results = r.results,
                        ![p].err = r.err]

\* SubmitResponses up to the return of s.attempts.SubmitResponses
ConcSubmitStore ==
    \E p \in DOMAIN procs :
        /\ procs[p].pc = "submit.store"
        /\ SubmitStored(p, EnsureExisting(World, procs[p].quiz),
                        normalizeUsername(procs[p].user),
                        StoreSubmitResponses(
                            EnsureExisting(World, procs[p].quiz).w.db,
                            EnsureExisting(World, procs[p].quiz).metadata.QuizID,
                            normalizeUsername(procs[p].user), procs[p].responses,
                            now, 0))
        /\ UNCHANGED <<now, last, bank>>

\* SubmitResponses from updateCachedLeaderboardAfterSubmission to the return
ConcSubmitPatch ==
    \E p \in DOMAIN procs :
        /\ procs[p].pc = "submit.patch"
        /\ leaderboardCache' = updateCachedLeaderboardAfterSubmission(
                                 leaderboardCache, procs[p].quiz, procs[p].user,
                                 procs[p].results, now)
        /\ attemptScores' = updateCachedAttemptScoresAfterSubmission(
                              attemptScores, procs[p].quiz, procs[p].user,
                              procs[p].results)
        /\ procs' = [procs EXCEPT ![p].pc = "done"]
        /\ UNCHANGED <<storeVars, quizMetaCache, quizQuestions, now, last, bank>>

\* A request for service.GetLeaderboard arrives.
ConcLeaderboardCall(ids, limits) ==
    \E id \in ids, limit \in limits :
        /\ CanAccept
        /\ procs' = MapPut(procs, NextRequest,
                           Request("leaderboard.read", "Service.GetLeaderboard",
                                   id, <<>>, <<>>, limit))
        /\ UNCHANGED <<storeVars, cacheVars, now, last, bank>>

\* GetLeaderboard after its call of EnsureQuiz returned e: it returns the
\* cached leaderboard, or has called s.attempts.GetLeaderboard.
LeaderboardWasRead(p, e) ==
    /\ Commit(e.w)
    /\ procs' =
         IF e.err # ErrNone
         THEN [procs EXCEPT ![p].pc = "done", ![p].err = e.err]
         ELSE IF e.metadata.QuizID \in DOMAIN leaderboardCache
         THEN [procs EXCEPT ![p].pc = "done", ![p].quiz = e.metadata.QuizID,
                 ![p].value = applyLeaderboardLimit(
                    leaderboardCache[e.metadata.QuizID].ordered, procs[p].limit)]
         ELSE [procs EXCEPT
                 ![p].pc = IF StoreGetLeaderboard(e.w.db, e.metadata.QuizID).err = ErrNone
                           THEN "leaderboard.fill" ELSE "done",
                 ![p].quiz = e.metadata.QuizID,
                 ![p].value = StoreGetLeaderboard(e.w.db, e.metadata.QuizID).value,
                 ![p].err = StoreGetLeaderboard(e.w.db, e.metadata.QuizID).err]

\* GetLeaderboard up to the return of s.attempts.GetLeaderboard, or to its
\* own return when the cache holds the leaderboard
ConcLeaderboardRead ==
    \E p \in DOMAIN procs :
        /\ procs[p].pc = "leaderboard.read"
        /\ LeaderboardWasRead(p, EnsureExisting(World, procs[p].quiz))
        /\ UNCHANGED <<now, last, bank>>

\* GetLeaderboard from setCachedLeaderboard to the return
ConcLeaderboardFill ==
    \E p \in DOMAIN procs :
        /\ procs[p].pc = "leaderboard.fill"
        /\ leaderboardCache' = setCachedLeaderboard(leaderboardCache, procs[p].quiz,
                                                    procs[p].value)
        /\ procs' = [procs EXCEPT ![p].pc = "done",
                       ![p].value = applyLeaderboardLimit(@, procs[p].limit)]
        /\ UNCHANGED <<storeVars, quizMetaCache, quizQuestions, attemptScores,
                       now, last, bank>>

\* A quiz of one question is created; then requests of two users to answer
\* it and requests for its leaderboard are served concurrently.
NextConc ==
    \/ SvcEnsureQuiz({Str_q}, {TRUE}, { <<QuestionX>> }, FALSE)
    \/ ConcSubmitCall({Str_q}, {Str_a, Str_A_padded}, SingleBatches({Resp_xA, Resp_xb}))
    \/ ConcSubmitStore
    \/ ConcSubmitPatch
    \/ ConcLeaderboardCall({Str_q}, {0})
    \/ ConcLeaderboardRead
    \/ ConcLeaderboardFill

SpecConc == Init /\ [][NextConc]_vars

----------------------------------------------------------------------------
(* Properties of the Service serving concurrent requests *)

\* The request's call of the store's SubmitResponses has returned results.
StoreCallReturned(p) ==
    /\ procs[p].op = "Service.SubmitResponses"
    /\ procs[p].pc \in {"submit.patch", "done"}
    /\ procs[p].err = ErrNone

\* The results, as <<request, position>>, that the store has returned for
\* valid responses to one (quiz, question, user).
ResultsFor(quiz, qid, user) ==
    UNION { { <<p, i>> : i \in { k \in DOMAIN procs[p].results :
                                   /\ procs[p].results[k].QuestionID = qid
                                   /\ ReachesInsert(QuestionLookup(DB, quiz),
                                                    procs[p].responses[k]) } } :
            p \in { r \in DOMAIN procs : /\ StoreCallReturned(r)
                                         /\ procs[r].quiz = quiz
                                         /\ procs[r].user = user } }

ResultAt(pi) == procs[pi[1]].results[pi[2]]

\* C3: of the SubmitResponses calls for one (quiz, question, user) with valid
\* letters that the store has served, in whatever order their requests were
\* interleaved, exactly one has status correct or incorrect and its score is
\* the score of the one attempt row; every other one has already_answered
\* with that score.
C3_ExactlyOneWinner ==
    \A quiz \in {Str_q}, qid \in {Str_x, Str_y}, user \in {Str_a, Str_b} :
        LET served == ResultsFor(quiz, qid, user)
            rows   == { r \in UserAttempts(attempts, quiz, user) : r.question_id = qid }
        IN  served # {} =>
              \E winner \in served :
                /\ Scored(ResultAt(winner).Status)
                /\ rows # {}
                /\ \A r \in rows : r.score = ScoreOf(ResultAt(winner).Status)
                /\ Cardinality(rows) = 1
                /\ \A other \in served \ {winner} :
                     /\ ResultAt(other).Status = StatusAlreadyAnswered
                     /\ ResultAt(other).AttemptScore = ScoreOf(ResultAt(winner).Status)

\* Two requests for the same key with different letters are both between
\* the store call and the cache update; the wrong letter won.
C3_Witness ==
    \E p \in DOMAIN procs, q \in DOMAIN procs :
        /\ procs[p].pc = "submit.patch"
        /\ procs[q].pc = "submit.patch"
        /\ procs[p].user = procs[q].user
        /\ procs[p].responses = <<Resp_xb>>
        /\ procs[q].responses = <<Resp_xA>>
        /\ procs[p].results[1].Status = StatusIncorrect
        /\ procs[q].results[1].Status = StatusAlreadyAnswered
        /\ procs[q].results[1].AttemptScore = 0

AllDone == DOMAIN procs # {} /\ \A p \in DOMAIN procs : procs[p].pc = "done"

\* C6: once every request has completed, a cached leaderboard has its
\* usernames in the order in which the store's GetLeaderboard returns them.
C6_CacheConvergesAfterConcurrentRequests ==
    AllDone =>
      \A id \in DOMAIN leaderboardCache :
          Usernames(leaderboardCache[id].ordered)
            = Usernames(StoreGetLeaderboard(DB, id).value)

\* ---------------------------------------------------------------------
\* The store with two quizzes of different questions: quiz q holds
\* question x, quiz r holds question y, and a batch may name a question of
\* the other quiz or carry an answer that is no letter.
NextBatch ==
    \/ DoStoreCreateQuiz({Str_q}, {<<QuestionX>>}, FALSE)
    \/ DoStoreCreateQuiz({Str_r}, {<<QuestionY>>}, FALSE)
    \/ DoStoreSubmitResponses({Str_q, Str_r}, {Str_a},
                              BatchesOf({Resp_xA, Resp_yA, Resp_xAB, Resp_xb}), FALSE)

SpecBatch == Init /\ [][NextBatch]_vars

\* The rows of the attempts table for one question of one quiz.
QuestionAttempts(rows, id, qid) ==
    { r \in QuizAttempts(rows, id) : r.question_id = qid }

\* C11: a store submission to a quiz that does not exist returns
\* ErrQuizNotFound with no results and writes no attempt row; in a batch to
\* an existing quiz a response whose question is not a question of that quiz
\* gets invalid_question and has no attempt row, while every response with a
\* valid letter for a question of the quiz is scored (or already answered)
\* and has its row in the table after the call.
C11_UnknownQuizAndUnknownQuestion ==
    [][ last'.op = "store.SubmitResponses" =>
          /\ ~QuizExists(DB, last'.quiz) =>
               /\ last'.err = ErrQuizNotFound
               /\ last'.results = <<>>
               /\ attempts' = attempts
          /\ QuizExists(DB, last'.quiz) =>
               /\ last'.err = ErrNone
               /\ Len(last'.results) = Len(last'.responses)
               /\ \A i \in DOMAIN last'.responses :
                    LET qid == last'.responses[i].QuestionID
                    IN  IF qid \notin { qq.question_id :
                               qq \in { l \in quiz_questions :
                                           l.quiz_id = last'.quiz } }
                        THEN /\ last'.results[i].Status = StatusInvalidQuestion
                             /\ QuestionAttempts(attempts', last'.quiz, qid) = {}
                        ELSE ReachesInsert(QuestionLookup(DB, last'.quiz),
                                           last'.responses[i]) =>
                               /\ last'.results[i].Status
                                    \in {StatusCorrect, StatusIncorrect,
                                         StatusAlreadyAnswered}
                               /\ \E r \in QuestionAttempts(attempts', last'.quiz, qid) :
                                    r.username_norm = last'.user
      ]_vars

\* A batch to quiz q named question y of quiz r first and question x of
\* quiz q second: the first item is invalid_question, the second is scored
\* and its row is the only row of the table.
C11_Witness ==
    /\ last.op = "store.SubmitResponses"
    /\ last.quiz = Str_q
    /\ last.responses = <<Resp_yA, Resp_xA>>
    /\ QuizExists(DB, Str_r)
    /\ last.err = ErrNone
    /\ last.results[1].Status = StatusInvalidQuestion
    /\ last.results[2].Status = StatusCorrect
    /\ Cardinality(attempts) = 1
    /\ QuestionAttempts(attempts, Str_q, Str_y) = {}

Statuses == {StatusCorrect, StatusIncorrect, StatusInvalidQuestion,
             StatusInvalidLetter, StatusAlreadyAnswered}

\* Response i of a call names no question of the quiz or carries no valid
\* letter for it.
Malformed(call, i) == ~ReachesInsert(QuestionLookup(DB, call.quiz), call.responses[i])

\* C12: a store submission to an existing quiz succeeds whatever its items
\* are, and returns one result per response, in the order of the responses
\* and with their question ids, each with one of the five statuses.
C12_OneResultPerResponse ==
    (last.op = "store.SubmitResponses" /\ QuizExists(DB, last.quiz)) =>
        /\ last.err = ErrNone
        /\ Len(last.results) = Len(last.responses)
        /\ \A i \in DOMAIN last.responses :
             /\ last.results[i].QuestionID = last.responses[i].QuestionID
             /\ last.results[i].Status \in Statuses

\* A call whose two items were both malformed (a question of the other
\* quiz, a two-letter answer) returned two results and no error.
C12_Witness ==
    /\ last.op = "store.SubmitResponses"
    /\ QuizExists(DB, last.quiz)
    /\ Len(last.responses) = MaxBatch
    /\ \A i \in DOMAIN last.responses : Malformed(last, i)
    /\ last.err = ErrNone
    /\ \E i \in DOMAIN last.results : last.results[i].Status = StatusInvalidQuestion
    /\ \E i \in DOMAIN last.results : last.results[i].Status = StatusInvalidLetter

\* ---------------------------------------------------------------------
\* The in-memory Bank: questions by id, and the verdict on a batch.

MaxOptions == 3

\* Bank.AddBuiltQuestions: each question is stored under its id (the
\* questions here carry an id, so none is given a hash id).
RECURSIVE AddBuiltQuestions(_, _)
AddBuiltQuestions(b, qs) ==
    IF qs = <<>> THEN b
    ELSE AddBuiltQuestions(MapPut(b, Head(qs).QuestionID, Head(qs)), Tail(qs))

\* The verdict of the bank without the check of the letter against the
\* number of options.
EvaluateResponseWithoutRange(b, response) ==
    IF response.QuestionID \notin DOMAIN b
    THEN ResponseResult(response.QuestionID, StatusInvalidQuestion, NilScore)
    ELSE IF NormalizeLetter(response.Answer) = <<>>
    THEN ResponseResult(response.QuestionID, StatusInvalidLetter, NilScore)
    ELSE IF AnswerIndex(NormalizeLetter(response.Answer))
               = b[response.QuestionID].CorrectIndex
    THEN ResponseResult(response.QuestionID, StatusCorrect, NilScore)
    ELSE ResponseResult(response.QuestionID, StatusIncorrect, NilScore)

\* The body of the loop of Bank.EvaluateResponses.
EvaluateResponse(b, response) ==
    IF response.QuestionID \notin DOMAIN b
    THEN ResponseResult(response.QuestionID, StatusInvalidQuestion, NilScore)
    ELSE IF b[response.QuestionID].NumOptions < 1
    THEN ResponseResult(response.QuestionID, StatusInvalidLetter, NilScore)
    ELSE IF NormalizeLetter(response.Answer) = <<>>
    THEN ResponseResult(response.QuestionID, StatusInvalidLetter, NilScore)
    ELSE IF \/ AnswerIndex(NormalizeLetter(response.Answer)) < 0
            \/ AnswerIndex(NormalizeLetter(response.Answer))
                  >= b[response.QuestionID].NumOptions
    THEN ResponseResult(response.QuestionID, StatusInvalidLetter, NilScore)
    ELSE IF AnswerIndex(NormalizeLetter(response.Answer))
               = b[response.QuestionID].CorrectIndex
    THEN ResponseResult(response.QuestionID, StatusCorrect, NilScore)
    ELSE ResponseResult(response.QuestionID, StatusIncorrect, NilScore)

\* Bank.EvaluateResponses
EvaluateResponses(b, responses) ==
    [i \in 1..Len(responses) |-> EvaluateResponse(b, responses[i])]

\* b.AddBuiltQuestions(questions)
BankAddBuiltQuestions(sets) ==
    \E qs \in sets :
        /\ bank' = AddBuiltQuestions(bank, qs)
        /\ last' = Call("Bank.AddBuiltQuestions", <<>>, <<>>, <<>>, <<>>, qs,
                        ErrNone, NoCalls, 0, 0)
        /\ UNCHANGED <<storeVars, now, cacheVars, procs>>

\* b.EvaluateResponses(responses)
BankEvaluateResponses(batches) ==
    \E responses \in batches :
        /\ last' = Call("Bank.EvaluateResponses", <<>>, <<>>, responses,
                        EvaluateResponses(bank, responses), <<>>,
                        ErrNone, NoCalls, 0, 0)
        /\ UNCHANGED <<storeVars, now, cacheVars, procs, bank>>

\* Question x with zero to MaxOptions options and every correct index.
BankQuestions ==
    { Question(Str_x, c, n) : <<c, n>> \in
        { p \in (0..MaxOptions) \X (0..MaxOptions) : p[1] < p[2] \/ p[1] = 0 } }

\* Submitted texts: empty, white space, padded, two letters, the byte before
\* A, and the letters up to one beyond MaxOptions in both cases.
AnswerTexts ==
    {<<>>, <<32>>, <<9, 32>>, Ans_AB, Ans_b, <<32, 98, 32>>, <<64>>}
      \cup { <<c>> : c \in 65..(65 + MaxOptions) }
      \cup { <<c>> : c \in 97..(97 + MaxOptions) }

NextBank ==
    \/ BankAddBuiltQuestions(SingleBatches(BankQuestions))
    \/ BankEvaluateResponses(SingleBatches(
           { SubmittedResponse(Str_x, a) : a \in AnswerTexts } \cup {Resp_zA}))

SpecBank == Init /\ [][NextBank]_vars

\* The text is accepted for a question with n options: trimmed and in upper
\* case it is one character among the first n letters from A.
Accepted(answer, n) ==
    /\ Len(ToUpper(TrimSpace(answer))) = 1
    /\ ToUpper(TrimSpace(answer))[1] \in 65..(65 + n - 1)

\* C13: for a question of the bank with n options the verdict on a
\* submitted text is invalid_letter unless the text, trimmed and in upper
\* case, is exactly one character in A..(A+n-1); an accepted letter is
\* correct when its index from A is the question's correct index and
\* incorrect otherwise.
C13_LetterVerdict ==
    last.op = "Bank.EvaluateResponses" =>
      \A i \in DOMAIN last.responses :
        LET response == last.responses[i]
            text     == ToUpper(TrimSpace(response.Answer))
        IN  response.QuestionID \in DOMAIN bank =>
              last.results[i].Status =
                IF ~Accepted(response.Answer, bank[response.QuestionID].NumOptions)
                THEN StatusInvalidLetter
                ELSE IF text[1] - 65 = bank[response.QuestionID].CorrectIndex
                THEN StatusCorrect
                ELSE StatusIncorrect

\* The padded lower-case text " b " was judged correct for a question with
\* two options whose correct index is 1.
C13_Witness ==
    /\ last.op = "Bank.EvaluateResponses"
    /\ Str_x \in DOMAIN bank
    /\ bank[Str_x].NumOptions = 2
    /\ bank[Str_x].CorrectIndex = 1
    /\ last.responses = <<SubmittedResponse(Str_x, <<32, 98, 32>>)>>
    /\ last.results[1].Status = StatusCorrect

\* ---------------------------------------------------------------------
\* One quiz of two questions; the same user writes and reads under the
\* spellings "a" and " A", a second user under " B".
RawNames == {Str_a, Str_A_padded, Str_B_padded}

NextNames ==
    \/ SvcEnsureQuiz({Str_q}, {TRUE}, {<<QuestionX, QuestionY>>}, FALSE)
    \/ SvcSubmitResponses({Str_q}, RawNames,
                          SingleBatches({Resp_xA, Resp_xb, Resp_yA}), {0}, FALSE)
    \/ SvcGetAttemptScores({Str_q}, RawNames)
    \/ SvcGetLeaderboard({Str_q}, {0})

SpecNames == Init /\ [][NextNames]_vars

\* Two spellings are equal once trimmed and put in lower case.
SameUser(u1, u2) == ToLower(TrimSpace(u1)) = ToLower(TrimSpace(u2))

\* The spelling every spelling of RawNames is stored and cached under.
NormalNames == { ToLower(TrimSpace(u)) : u \in RawNames }

\* C14: attempt rows, attempt-score cache keys and cached leaderboard
\* entries carry trimmed lower-case usernames only, with one leaderboard
\* entry per user; GetAttemptScores and SubmitResponses called under two
\* spellings that are equal after normalization return the same and leave
\* the same store and caches; and a question that the call just returned
\* has scored is already_answered when submitted under any spelling of the
\* same user.
C14_NormalizedNamesAreOneUser ==
    /\ \A r \in attempts : r.username_norm \in NormalNames
    /\ DOMAIN attemptScores
         \subseteq { attemptScoresCacheKey(Str_q, u) : u \in NormalNames }
    /\ \A id \in DOMAIN leaderboardCache :
         LET ordered == leaderboardCache[id].ordered
         IN  /\ \A i \in DOMAIN ordered : ordered[i].Username \in NormalNames
             /\ \A i \in DOMAIN ordered, j \in DOMAIN ordered :
                  ordered[i].Username = ordered[j].Username => i = j
    /\ \A u1 \in RawNames, u2 \in RawNames :
         SameUser(u1, u2) =>
           /\ GetAttemptScores(World, Str_q, u1) = GetAttemptScores(World, Str_q, u2)
           /\ \A responses \in SingleBatches({Resp_xA, Resp_xb, Resp_yA}) :
                SubmitResponses(World, Str_q, u1, responses, now, now, 0)
                  = SubmitResponses(World, Str_q, u2, responses, now, now, 0)
    /\ (last.op = "Service.SubmitResponses" /\ last.err = ErrNone) =>
         \A i \in DOMAIN last.results, u \in RawNames :
            (Scored(last.results[i].Status) /\ SameUser(u, last.user)) =>
               SubmitResponses(World, last.quiz, u, <<last.responses[i]>>,
                               now, now, 0).results[1].Status
                 = StatusAlreadyAnswered

\* The user answered question x correctly under the spelling " A" while the
\* leaderboard and the scores of "a" were cached: one row, one cache entry
\* and one leaderboard entry, all under "a".
C14_Witness ==
    /\ last.op = "Service.SubmitResponses"
    /\ last.user = Str_A_padded
    /\ last.responses = <<Resp_xA>>
    /\ last.err = ErrNone
    /\ last.results[1].Status = StatusCorrect
    /\ \E r \in attempts : r.username_norm = Str_a /\ r.question_id = Str_x
    /\ attemptScoresCacheKey(Str_q, Str_a) \in DOMAIN attemptScores
    /\ Str_q \in DOMAIN leaderboardCache
    /\ \E i \in DOMAIN leaderboardCache[Str_q].ordered :
         leaderboardCache[Str_q].ordered[i].Username = Str_a

\* ---------------------------------------------------------------------
\* One quiz of two questions, two users and a caller whose username is
\* blank; batches carry valid letters, an unknown question and a text that
\* is no letter; the leaderboard and the scores are read in between.
BlankNames == {<<>>, <<32>>}

PatchBatches ==
    SingleBatches({Resp_xA, Resp_xb, Resp_yA, Resp_zA, Resp_xAB})
      \cup {<<Resp_xA, Resp_yA>>, <<Resp_xb, Resp_zA>>}

NextPatch ==
    \/ SvcEnsureQuiz({Str_q}, {TRUE}, {<<QuestionX, QuestionY>>}, FALSE)
    \/ SvcSubmitResponses({Str_q}, {Str_a, Str_B_padded, <<32>>}, PatchBatches,
                          {0}, FALSE)
    \/ SvcGetAttemptScores({Str_q}, {Str_a, <<32>>})
    \/ SvcGetLeaderboard({Str_q}, {0})

SpecPatch == Init /\ [][NextPatch]_vars

\* C15: on an existing quiz, SubmitResponses and GetAttemptScores called
\* with a username that is empty after normalization return
\* ErrInvalidUsername and no result, make no call of the attempt store's
\* SubmitResponses or GetAttemptScores, write no attempt row and leave the
\* leaderboard cache and the attempt-score cache as they were.
C15_BlankUsernameIsRejected ==
    QuizExists(DB, Str_q) =>
      \A u \in BlankNames :
        /\ \A responses \in PatchBatches :
             LET r == SubmitResponses(World, Str_q, u, responses, now, now, 0)
             IN  /\ r.err = ErrInvalidUsername
                 /\ r.results = <<>>
                 /\ r.w.calls.submit = 0
                 /\ r.w.db = DB
                 /\ r.w.cache.leaderboardCache = leaderboardCache
                 /\ r.w.cache.attemptScores = attemptScores
        /\ LET g == GetAttemptScores(World, Str_q, u)
           IN  /\ g.err = ErrInvalidUsername
               /\ g.value = <<>>
               /\ g.w.calls.scores = 0
               /\ g.w.db = DB
               /\ g.w.cache.leaderboardCache = leaderboardCache
               /\ g.w.cache.attemptScores = attemptScores

\* A submission under the username " " has just failed with
\* ErrInvalidUsername while rows were stored and both caches were filled.
C15_Witness ==
    /\ last.op = "Service.SubmitResponses"
    /\ last.user = <<32>>
    /\ last.responses = <<Resp_xA>>
    /\ last.err = ErrInvalidUsername
    /\ last.calls.submit = 0
    /\ attempts # {}
    /\ Str_q \in DOMAIN leaderboardCache
    /\ attemptScoresCacheKey(Str_q, Str_a) \in DOMAIN attemptScores

\* Result i of a list of results carries a score for question qid.
CarriesScore(results, i, qid) ==
    /\ results[i].QuestionID = qid
    /\ \/ Scored(results[i].Status)
       \/ /\ results[i].Status = StatusAlreadyAnswered
          /\ results[i].AttemptScore # NilScore

\* The score a result carries: 1 for correct, 0 for incorrect, the attached
\* score for already_answered.
CarriedScore(result) ==
    IF result.Status = StatusAlreadyAnswered THEN result.AttemptScore
    ELSE ScoreOf(result.Status)

\* The last result of the list that carries a score for question qid.
LastCarrying(results, qid) ==
    CHOOSE i \in DOMAIN results :
        /\ CarriesScore(results, i, qid)
        /\ \A j \in DOMAIN results : CarriesScore(results, j, qid) => j <= i

\* C16: when the attempt-score cache entry of (quiz, user) exists, a
\* successful SubmitResponses leaves in it, for every question a result
\* carries a score for, the score of the last such result (1 for correct, 0
\* for incorrect, the attached score for already_answered); a question with
\* only invalid_question or invalid_letter results, or with no result, has
\* the cached score it had, or none if it had none; the entries of other
\* users are unchanged.
C16_ScoreCacheIsPatched ==
    \A u \in {Str_a, Str_B_padded}, responses \in PatchBatches :
      LET r   == SubmitResponses(World, Str_q, u, responses, now, now, 0)
          key == attemptScoresCacheKey(Str_q, ToLower(TrimSpace(u)))
      IN  (key \in DOMAIN attemptScores /\ r.err = ErrNone) =>
            /\ DOMAIN r.w.cache.attemptScores = DOMAIN attemptScores
            /\ \A k \in DOMAIN attemptScores \ {key} :
                 r.w.cache.attemptScores[k] = attemptScores[k]
            /\ \A qid \in {Str_x, Str_y, Str_z} :
                 LET before == attemptScores[key]
                     after  == r.w.cache.attemptScores[key]
                 IN  IF \E i \in DOMAIN r.results : CarriesScore(r.results, i, qid)
                     THEN /\ qid \in DOMAIN after
                          /\ after[qid] =
                               CarriedScore(r.results[LastCarrying(r.results, qid)])
                     ELSE /\ qid \in DOMAIN after <=> qid \in DOMAIN before
                          /\ qid \in DOMAIN before => after[qid] = before[qid]

\* The batch (x: b, z: A) of user a has just returned incorrect and
\* invalid_question; the cached scores of the user hold 0 for x, the score
\* of y cached earlier, and nothing for z.
C16_Witness ==
    /\ last.op = "Service.SubmitResponses"
    /\ last.user = Str_a
    /\ last.responses = <<Resp_xb, Resp_zA>>
    /\ last.err = ErrNone
    /\ last.results[1].Status = StatusIncorrect
    /\ last.results[2].Status = StatusInvalidQuestion
    /\ attemptScoresCacheKey(Str_q, Str_a) \in DOMAIN attemptScores
    /\ DOMAIN attemptScores[attemptScoresCacheKey(Str_q, Str_a)] = {Str_x, Str_y}
    /\ attemptScores[attemptScoresCacheKey(Str_q, Str_a)][Str_x] = 0

\* The entries of a cached leaderboard that are, or are not, of one user.
EntriesOf(cache, user) ==
    { cache.ordered[i] : i \in { k \in DOMAIN cache.ordered :
                                   cache.ordered[k].Username = user } }

EntriesOfOthers(cache, user) ==
    { cache.ordered[i] : i \in { k \in DOMAIN cache.ordered :
                                   cache.ordered[k].Username # user } }

CountStatus(results, statuses) ==
    Cardinality({ i \in DOMAIN results : results[i].Status \in statuses })

\* C17: when the leaderboard of the quiz is cached, a successful
\* SubmitResponses with no correct or incorrect result leaves the cached
\* leaderboard (entries, order, timestamps, index) as it was; otherwise the
\* entries of the other users are the ones cached before, and the submitter
\* has one entry whose answered count is the count cached before (0 without
\* an entry) plus the number of correct and incorrect results and whose
\* total score is the score cached before plus the number of correct
\* results.
C17_LeaderboardCacheIsPatched ==
    \A u \in {Str_a, Str_B_padded}, responses \in PatchBatches :
      LET r    == SubmitResponses(World, Str_q, u, responses, now, now, 0)
          user == ToLower(TrimSpace(u))
      IN  (Str_q \in DOMAIN leaderboardCache /\ r.err = ErrNone) =>
            LET before == leaderboardCache[Str_q]
                after  == r.w.cache.leaderboardCache[Str_q]
                new    == CountStatus(r.results, {StatusCorrect, StatusIncorrect})
                right  == CountStatus(r.results, {StatusCorrect})
                old    == IF EntriesOf(before, user) = {}
                          THEN LeaderboardEntry(user, 0, 0, 0)
                          ELSE CHOOSE e \in EntriesOf(before, user) : TRUE
            IN  IF new = 0 THEN after = before
                ELSE /\ EntriesOfOthers(after, user) = EntriesOfOthers(before, user)
                     /\ Len(after.ordered)
                          = Cardinality(EntriesOfOthers(before, user)) + 1
                     /\ \A e \in EntriesOf(after, user) :
                          /\ e.AnsweredCount = old.AnsweredCount + new
                          /\ e.TotalScore = old.TotalScore + right
                     /\ EntriesOf(after, user) # {}

\* User b, first seen by the cached leaderboard in this call, answered x
\* correctly and y incorrectly in one batch: the entry of b has score 1 and
\* count 2 beside the entry of a.
C17_Witness ==
    /\ last.op = "Service.SubmitResponses"
    /\ last.user = Str_B_padded
    /\ last.responses = <<Resp_xA, Resp_yA>>
    /\ last.err = ErrNone
    /\ last.results[1].Status = StatusCorrect
    /\ last.results[2].Status = StatusIncorrect
    /\ Str_q \in DOMAIN leaderboardCache
    /\ EntriesOf(leaderboardCache[Str_q], Str_a) # {}
    /\ \E e \in EntriesOf(leaderboardCache[Str_q], Str_b) :
         e.TotalScore = 1 /\ e.AnsweredCount = 2

\* C18: SubmitResponses, whatever its outcome, leaves the set of cached
\* attempt-score entries and the set of quizzes with a cached leaderboard
\* as they were, so it creates neither; an entry that is missing is filled
\* by GetAttemptScores, and a missing leaderboard by GetLeaderboard, with
\* one call of the attempt store and with what the store returns.
C18_WritePathCreatesNoCache ==
    /\ \A u \in {Str_a, Str_B_padded, <<32>>}, responses \in PatchBatches :
         LET r == SubmitResponses(World, Str_q, u, responses, now, now, 0)
         IN  /\ DOMAIN r.w.cache.attemptScores = DOMAIN attemptScores
             /\ DOMAIN r.w.cache.leaderboardCache = DOMAIN leaderboardCache
    /\ QuizExists(DB, Str_q) =>
         /\ \A u \in {Str_a, Str_B_padded} :
              LET key == attemptScoresCacheKey(Str_q, ToLower(TrimSpace(u)))
                  g   == GetAttemptScores(World, Str_q, u)
              IN  key \notin DOMAIN attemptScores =>
                    /\ g.w.calls.scores = 1
                    /\ key \in DOMAIN g.w.cache.attemptScores
                    /\ g.w.cache.attemptScores[key]
                         = StoreGetAttemptScores(DB, Str_q, ToLower(TrimSpace(u))).value
         /\ Str_q \notin DOMAIN leaderboardCache =>
              LET g == GetLeaderboard(World, Str_q, 0)
              IN  /\ g.w.calls.leaderboard = 1
                  /\ Str_q \in DOMAIN g.w.cache.leaderboardCache
                  /\ g.w.cache.leaderboardCache[Str_q].ordered
                       = StoreGetLeaderboard(DB, Str_q).value

\* A submission has just stored two rows while no leaderboard and no
\* attempt scores were cached; none are cached now.
C18_Witness ==
    /\ last.op = "Service.SubmitResponses"
    /\ last.err = ErrNone
    /\ last.wrote = 2
    /\ Cardinality(attempts) > 2
    /\ DOMAIN attemptScores = {}
    /\ DOMAIN leaderboardCache = {}

MaxLimit == 3

\* C19: GetLeaderboard with a limit returns the whole cached order when the
\* limit is at most 0 or at least its length, and otherwise its first limit
\* entries in their order; the state the call leaves is the one the call
\* with limit 0 leaves, and a read made after it with a limit of at least
\* the length returns the whole order.
C19_LimitIsAPrefix ==
    /\ \A limit \in (-1)..MaxLimit :
         LET r == GetLeaderboard(World, Str_q, limit)
         IN  r.err = ErrNone =>
               LET full == r.w.cache.leaderboardCache[Str_q].ordered
               IN  /\ r.w = GetLeaderboard(World, Str_q, 0).w
                   /\ (limit <= 0 \/ limit >= Len(full)) => r.value = full
                   /\ (limit > 0 /\ limit < Len(full)) =>
                        /\ Len(r.value) = limit
                        /\ \A i \in 1..limit : r.value[i] = full[i]
                   /\ \A larger \in 0..MaxLimit :
                        larger >= Len(full) =>
                          GetLeaderboard(r.w, Str_q, larger).value = full
    /\ (last.op = "Service.GetLeaderboard" /\ last.err = ErrNone) =>
         last.value =
           IF last.limit <= 0
                 \/ last.limit >= Len(leaderboardCache[TrimSpace(last.quiz)].ordered)
           THEN leaderboardCache[TrimSpace(last.quiz)].ordered
           ELSE SubSeq(leaderboardCache[TrimSpace(last.quiz)].ordered, 1, last.limit)

\* GetLeaderboard with limit 1 has just returned one entry of a cached
\* leaderboard of two.
C19_Witness ==
    /\ last.op = "Service.GetLeaderboard"
    /\ last.err = ErrNone
    /\ last.limit = 1
    /\ Len(last.value) = 1
    /\ Len(leaderboardCache[Str_q].ordered) = 2
    /\ last.value[1] = leaderboardCache[Str_q].ordered[1]

\* ---------------------------------------------------------------------
\* EnsureQuiz and GetQuizQuestions on ids that are missing, padded or
\* blank; the fetcher hands over two questions, one question, no question,
\* or the same question twice.
EnsureSets ==
    {<<QuestionX, QuestionY>>, <<QuestionY>>, <<>>, <<QuestionX, QuestionX>>}

EnsureIDs == {Str_q, Str_q_padded, Str_r, <<>>, <<32>>}

NextEnsure ==
    \/ SvcEnsureQuiz(EnsureIDs, {TRUE, FALSE}, EnsureSets, FALSE)
    \/ SvcGetQuizQuestions({Str_q, Str_r}, {FALSE}, EnsureSets, FALSE)

SpecEnsure == Init /\ [][NextEnsure]_vars

\* The quiz id is in neither the metadata cache nor the store.
Absent(id) == id # <<>> /\ id \notin DOMAIN quizMetaCache /\ ~QuizExists(DB, id)

DistinctQuestions(qs) ==
    \A i \in DOMAIN qs, j \in DOMAIN qs :
        qs[i].QuestionID = qs[j].QuestionID => i = j

\* What the store holds for the quiz: the links of quiz_questions.
StoredLinks(db, id) == { l \in db.quiz_questions : l.quiz_id = id }

\* EnsureQuiz has created the quiz id with the questions qs: the store holds
\* the quiz under id and no other new quiz, both caches hold it, and the
\* metadata returned counts the stored questions.
Created(r, id, qs) ==
    /\ r.err = ErrNone
    /\ r.metadata = QuizMetadata(id, Len(qs))
    /\ r.w.db.quizzes = quizzes \cup {[quiz_id |-> id, question_count |-> Len(qs)]}
    /\ StoreGetQuizQuestions(r.w.db, id).value = qs
    /\ r.metadata.QuestionCount = Cardinality(StoredLinks(r.w.db, id))
    /\ r.w.db.attempts = attempts
    /\ id \in DOMAIN r.w.cache.quizMetaCache
    /\ r.w.cache.quizMetaCache[id] = r.metadata
    /\ id \in DOMAIN r.w.cache.quizQuestions
    /\ r.w.cache.quizQuestions[id] = qs

\* EnsureQuiz without creation on an absent id: ErrQuizNotFound, the store
\* and the caches as they were, and a quiz created afterwards is found.
MissIsNotCached(id) ==
    LET r == EnsureQuiz(World, id, FALSE, NoFetch, 0)
    IN  /\ r.err = ErrQuizNotFound
        /\ r.w.db = DB
        /\ r.w.cache = Caches
        /\ \A qs \in EnsureSets :
             DistinctQuestions(qs) =>
               EnsureQuiz([r.w EXCEPT !.db =
                              StoreCreateQuiz(DB, QuizMetadata(TrimSpace(id), Len(qs)),
                                              qs, 0).db],
                          id, FALSE, NoFetch, 0).metadata
                 = QuizMetadata(TrimSpace(id), Len(qs))

\* EnsureQuiz on a blank id: ErrQuizNotFound, no store call, nothing changed.
BlankIsNotFound(id, create, fetch) ==
    LET r == EnsureQuiz(World, id, create, fetch, 0)
    IN  /\ r.err = ErrQuizNotFound
        /\ r.w = World

NextFetch ==
    \/ SvcCreateQuiz({Str_q, Str_r}, {<<QuestionX>>, <<QuestionX, QuestionY>>}, TRUE)
    \/ SvcEnsureQuiz({Str_q, Str_r}, {TRUE}, {<<QuestionX>>, <<QuestionY>>}, TRUE)
    \/ SvcGetQuizQuestions({Str_q, Str_r}, {TRUE, FALSE}, {<<QuestionY>>}, TRUE)

SpecFetch == Init /\ [][NextFetch]_vars

FailedFetch == [questions |-> <<>>, err |-> ErrFetch]

\* The handler returned r after its fetch failed: the error of the fetcher,
\* the fetcher called once and the store's CreateQuiz not at all, the store
\* and the caches as they are in the state.
FetchFailureIsFatal(r) ==
    /\ r.err = ErrFetch
    /\ r.w.calls.fetch = 1
    /\ r.w.calls.create = 0
    /\ r.w.db = DB
    /\ r.w.cache = Caches

\* C21: for a quiz id that is in neither the store nor the metadata cache,
\* CreateQuiz, EnsureQuiz and GetQuizQuestions with createIfMissing return
\* the fetcher's error when the fetch fails, do not call the store's
\* CreateQuiz, and leave the store (no quiz row, no question link of the
\* id) and the caches (no metadata, no questions of the id) as they were.
C21_FetchFailureCreatesNothing ==
    \A id \in {Str_q, Str_r} :
        Absent(id) =>
          /\ FetchFailureIsFatal(CreateQuiz(World, id, FailedFetch, 0))
          /\ FetchFailureIsFatal(EnsureQuiz(World, id, TRUE, FailedFetch, 0))
          /\ FetchFailureIsFatal(GetQuizQuestions(World, id, TRUE, FailedFetch, 0))
          /\ StoredLinks(DB, id) = {}
          /\ id \notin DOMAIN quizQuestions

\* GetQuizQuestions with createIfMissing has just failed on the fetch for
\* quiz r while quiz q is stored and cached: r is in neither store nor cache.
C21_Witness ==
    /\ last.op = "Service.GetQuizQuestions"
    /\ last.quiz = Str_r
    /\ last.err = ErrFetch
    /\ last.calls.fetch = 1
    /\ last.calls.create = 0
    /\ QuizExists(DB, Str_q)
    /\ Str_q \in DOMAIN quizMetaCache
    /\ Absent(Str_r)
    /\ StoredLinks(DB, Str_r) = {}
    /\ Str_r \notin DOMAIN quizQuestions

----------------------------------------------------------------------------
(* The /responses handler of the HTTP API *)

\* The body of the loop of Service.EvaluateResponsesForQuiz; the lookup
\* holds, for a question id that occurs twice, the later question.
EvaluateResponseForQuiz(qs, response) ==
    IF \A k \in DOMAIN qs : qs[k].QuestionID # response.QuestionID
    THEN ResponseResult(response.QuestionID, StatusInvalidQuestion, NilScore)
    ELSE IF NormalizeLetter(response.Answer) = <<>>
    THEN ResponseResult(response.QuestionID, StatusInvalidLetter, NilScore)
    ELSE IF \/ AnswerIndex(NormalizeLetter(response.Answer)) < 0
            \/ AnswerIndex(NormalizeLetter(response.Answer))
                 >= qs[CHOOSE k \in DOMAIN qs :
                         /\ qs[k].QuestionID = response.QuestionID
                         /\ \A j \in DOMAIN qs :
                              qs[j].QuestionID = response.QuestionID => j <= k
                      ].NumOptions
    THEN ResponseResult(response.QuestionID, StatusInvalidLetter, NilScore)
    ELSE IF AnswerIndex(NormalizeLetter(response.Answer))
              = qs[CHOOSE k \in DOMAIN qs :
                     /\ qs[k].QuestionID = response.QuestionID
                     /\ \A j \in DOMAIN qs :
                          qs[j].QuestionID = response.QuestionID => j <= k
                  ].CorrectIndex
    THEN ResponseResult(response.QuestionID, StatusCorrect, NilScore)
    ELSE ResponseResult(response.QuestionID, StatusIncorrect, NilScore)

\* Service.EvaluateResponsesForQuiz after its call of GetQuizQuestions; it
\* writes no attempt row (wrote is 0).
EvaluateResponsesForQuizRead(g, responses) ==
    IF g.err # ErrNone
    THEN [w |-> g.w, results |-> <<>>, err |-> g.err, wrote |-> 0]
    ELSE [w |-> g.w,
          results |-> [i \in 1..Len(responses) |->
                         EvaluateResponseForQuiz(g.questions, responses[i])],
          err |-> ErrNone, wrote |-> 0]

\* An evaluation that stores the answers under a guest name.
EvaluateResponsesForQuizAsGuest(w, quizID, responses) ==
    SubmitResponses(w, quizID, <<103>>, responses, 0, 0, 0)

\* Service.EvaluateResponsesForQuiz
EvaluateResponsesForQuiz(w, quizID, responses) ==
    EvaluateResponsesForQuizRead(GetQuizQuestions(w, quizID, FALSE, NoFetch, 0),
                                 responses)

\* writeServiceError: the status code of the reply to a failed call
writeServiceError(err) ==
    IF err = ErrQuizNotFound THEN 404
    ELSE IF err = ErrInvalidUsername THEN 400
    ELSE 500

\* A reply that never carries a warning.
HandleResponsesDoneWithoutWarning(r, warnings) ==
    IF r.err # ErrNone
    THEN [w |-> r.w, code |-> writeServiceError(r.err), results |-> <<>>,
          warnings |-> <<>>, err |-> r.err, wrote |-> r.wrote]
    ELSE [w |-> r.w, code |-> 200, results |-> r.results, warnings |-> <<>>,
          err |-> ErrNone, wrote |-> r.wrote]

\* API.HandleResponses once the Service or the bank has returned r: the
\* error reply of writeServiceError, or the results with the warnings.
HandleResponsesDone(r, warnings) ==
    IF r.err # ErrNone
    THEN [w |-> r.w, code |-> writeServiceError(r.err), results |-> <<>>,
          warnings |-> <<>>, err |-> r.err, wrote |-> r.wrote]
    ELSE [w |-> r.w, code |-> 200, results |-> r.results, warnings |-> warnings,
          err |-> ErrNone, wrote |-> r.wrote]

\* API.HandleResponses on a decoded request [quiz_id, username, responses,
\* hasResponses]; hasResponses is FALSE when the body carries no responses.
\* b is the bank of the API.
HandleResponses(w, b, request, t, t2, failAt) ==
    IF ~request.hasResponses
    THEN [w |-> w, code |-> 400, results |-> <<>>, warnings |-> <<>>,
          err |-> "responses is required", wrote |-> 0]
    ELSE IF TrimSpace(request.quiz_id) # <<>> /\ TrimSpace(request.username) # <<>>
    THEN HandleResponsesDone(
           SubmitResponses(w, TrimSpace(request.quiz_id), TrimSpace(request.username),
                           request.responses, t, t2, failAt),
           <<>>)
    ELSE IF TrimSpace(request.quiz_id) # <<>>
    THEN HandleResponsesDone(
           EvaluateResponsesForQuiz(w, TrimSpace(request.quiz_id), request.responses),
           <<"responses are not linked to leaderboard">>)
    ELSE HandleResponsesDone(
           [w |-> w, results |-> EvaluateResponses(b, request.responses),
            err |-> ErrNone, wrote |-> 0],
           <<"responses are not linked to leaderboard">>)

\* The requests with one of the quiz ids, usernames and batches.
ResponsesRequests(ids, users, batches) ==
    { [quiz_id |-> id, username |-> user, responses |-> responses,
       hasResponses |-> TRUE] : id \in ids, user \in users, responses \in batches }
      \cup { [quiz_id |-> id, username |-> user, responses |-> <<>>,
              hasResponses |-> FALSE] : id \in ids, user \in users }

\* POST /responses; the record of the call holds the status code and the
\* warnings of the reply.
ApiHandleResponses(requests) ==
    \E request \in requests :
        /\ Returns(HandleResponses(World, bank, request, now, now, 0),
                   "API.HandleResponses", request.quiz_id, request.username,
                   request.responses, 0)
        /\ UNCHANGED <<now, procs, bank>>

\* One quiz, a bank that knows question x, and requests with and without a
\* quiz id and a username, for a stored quiz and for an unknown one; the
\* leaderboard and the scores of user a are read in between.
ApiRequests ==
    ResponsesRequests({<<>>, Str_q, Str_q_padded, Str_r}, {<<>>, <<32>>, Str_a},
                      SingleBatches({Resp_xA, Resp_xb, Resp_zA}))

NextApi ==
    \/ SvcEnsureQuiz({Str_q}, {TRUE}, {<<QuestionX, QuestionY>>}, FALSE)
    \/ BankAddBuiltQuestions({<<QuestionX>>})
    \/ ApiHandleResponses(ApiRequests)
    \/ SvcGetLeaderboard({Str_q}, {0})
    \/ SvcGetAttemptScores({Str_q}, {Str_a})

SpecApi == Init /\ [][NextApi]_vars

\* A request with responses that lacks the quiz id or the username.
LacksQuizOrUser(request) ==
    /\ request.hasResponses
    /\ TrimSpace(request.quiz_id) = <<>> \/ TrimSpace(request.username) = <<>>

\* The handler persisted nothing: no call of Service.SubmitResponses reached
\* the attempt store, and the store, the leaderboard cache and the
\* attempt-score cache are as they are in the state.
NothingPersisted(r) ==
    /\ r.w.calls.submit = 0
    /\ r.wrote = 0
    /\ r.w.db = DB
    /\ r.w.cache.leaderboardCache = leaderboardCache
    /\ r.w.cache.attemptScores = attemptScores

\* C22 as stated: every request that lacks the quiz id or the username is
\* answered with the evaluated responses and exactly one warning.
C22_AlwaysEvaluatedWithWarning ==
    \A request \in ApiRequests :
        LacksQuizOrUser(request) =>
          LET r == HandleResponses(World, bank, request, now, now, 0)
          IN  /\ NothingPersisted(r)
              /\ r.code = 200
              /\ Len(r.results) = Len(request.responses)
              /\ Len(r.warnings) = 1

\* C22: the /responses handler calls Service.SubmitResponses exactly when
\* quiz id and username are both non-empty after trimming, and then replies
\* without a warning.  A request that lacks one of them persists nothing
\* (no attempt row, leaderboard and attempt-score caches unchanged); without
\* a quiz id it is answered with the bank's verdicts and one warning; with
\* the id of a known quiz it is answered with the verdicts of
\* EvaluateResponsesForQuiz and one warning; with the id of an unknown quiz
\* it is answered with the quiz-not-found error, no results and no warning.
C22_PersistsOnlyWithQuizAndUser ==
    \A request \in ApiRequests :
      LET r    == HandleResponses(World, bank, request, now, now, 0)
          quiz == TrimSpace(request.quiz_id)
      IN  /\ LacksQuizOrUser(request) =>
               /\ NothingPersisted(r)
               /\ quiz = <<>> =>
                    /\ r.code = 200
                    /\ r.results = EvaluateResponses(bank, request.responses)
                    /\ Len(r.warnings) = 1
               /\ (quiz # <<>> /\ ~Absent(quiz)) =>
                    /\ r.code = 200
                    /\ r.results
                         = EvaluateResponsesForQuiz(World, quiz, request.responses).results
                    /\ Len(r.results) = Len(request.responses)
                    /\ Len(r.warnings) = 1
               /\ (quiz # <<>> /\ Absent(quiz)) =>
                    /\ r.code = 404
                    /\ r.results = <<>>
                    /\ r.warnings = <<>>
          /\ (request.hasResponses /\ ~LacksQuizOrUser(request) /\ ~Absent(quiz)) =>
               /\ r.w.calls.submit = 1
               /\ r.code = 200
               /\ r.warnings = <<>>

\* A request for the stored quiz q without a username has just been
\* answered with a verdict and one warning, while rows are stored and both
\* caches are filled.
C22_Witness ==
    /\ last.op = "API.HandleResponses"
    /\ last.quiz = Str_q
    /\ last.user = <<32>>
    /\ last.responses = <<Resp_xA>>
    /\ last.err = ErrNone
    /\ last.results[1].Status = StatusCorrect
    /\ Len(last.value[2]) = 1
    /\ last.calls.submit = 0
    /\ attempts # {}
    /\ Str_q \in DOMAIN leaderboardCache
    /\ attemptScoresCacheKey(Str_q, Str_a) \in DOMAIN attemptScores

\* ---------------------------------------------------------------------
\* Per-question writes of a quiz client: each answer is sent alone, and the
\* writes of one user may reach the store in any order.

\* The letter and the score stored per question for one user of a quiz.
DurableAnswers(rows, id, user) ==
    { [question_id |-> r.question_id, answer_letter |-> r.answer_letter,
       score |-> r.score] : r \in UserAttempts(rows, id, user) }

\* total_score and answered_count of one user as the aggregation gives them.
DurableTotals(rows, id, user) ==
    { [total_score |-> e.TotalScore, answered_count |-> e.AnsweredCount] :
        e \in { g \in GroupByUser(rows, id) : g.Username = user } }

\* The database after one write of a single response has been served at t.
AfterWrite(db, id, user, response, t) ==
    [db EXCEPT !.attempts =
        StoreSubmitResponses(db, id, user, <<response>>, t, 0).attempts]

\* What the claim compares after the writes: rows per question, the
\* attempt scores and the totals.
DurableOutcome(db, id, user) ==
    [answers |-> DurableAnswers(db.attempts, id, user),
     scores  |-> StoreGetAttemptScores(db, id, user).value,
     totals  |-> DurableTotals(db.attempts, id, user)]

WriteTimes == 0 .. MaxTime

\* C23: two single-response writes of one user to different questions of a
\* quiz leave the same rows (letter and score per question), the same
\* attempt scores, total_score and answered_count whichever arrives first,
\* and a write that is delivered again after both changes no row at all.
C23_SingleWritesCommute ==
    \A id \in {Str_q, Str_r} :
      \A r1 \in {Resp_xA, Resp_xb, Resp_yA}, r2 \in {Resp_xA, Resp_xb, Resp_yA} :
        r1.QuestionID # r2.QuestionID =>
          \A t1 \in WriteTimes, t2 \in WriteTimes :
            t1 <= t2 =>
              LET t3    == t2 + 1
                  one   == AfterWrite(AfterWrite(DB, id, Str_a, r1, t1), id, Str_a, r2, t2)
                  other == AfterWrite(AfterWrite(DB, id, Str_a, r2, t1), id, Str_a, r1, t2)
              IN  /\ DurableOutcome(one, id, Str_a) = DurableOutcome(other, id, Str_a)
                  /\ AfterWrite(one, id, Str_a, r1, t3).attempts = one.attempts
                  /\ AfterWrite(one, id, Str_a, r2, t3).attempts = one.attempts

\* The answer to y arrived before the answer to x, both are stored, and
\* the write for y has just been delivered again at a later time.
C23_Witness ==
    /\ IsSubmit(last)
    /\ last.err = ErrNone
    /\ last.quiz = Str_q
    /\ last.responses = <<Resp_yA>>
    /\ last.results[1].Status = StatusAlreadyAnswered
    /\ \E rx \in QuestionAttempts(attempts, Str_q, Str_x),
          ry \in QuestionAttempts(attempts, Str_q, Str_y) :
         /\ rx.username_norm = Str_a
         /\ ry.username_norm = Str_a
         /\ ry.submitted_at_unix < rx.submitted_at_unix
         /\ rx.submitted_at_unix < now + 1
         /\ now > ry.submitted_at_unix

\* ---------------------------------------------------------------------
\* Two users answer a quiz of two questions one response at a time while
\* the clock advances between the calls and inside them, so that a patched
\* entry can move towards the head (a better score) and towards the tail
\* (a later submission with the same score).
NextBubble ==
    \/ Tick
    \/ SvcEnsureQuiz({Str_q}, {TRUE}, {<<QuestionX, QuestionY>>}, FALSE)
    \/ SvcSubmitResponses({Str_q}, {Str_a, Str_b},
                          SingleBatches({Resp_xA, Resp_xb, Resp_yA}), {0, 1}, FALSE)
    \/ SvcGetLeaderboard({Str_q}, {0})

SpecBubble == Init /\ [][NextBubble]_vars

\* Sorted under leaderboardBefore: no entry ranks before its predecessor.
SortedLeaderboard(ordered) ==
    \A i \in 1 .. Len(ordered) - 1 :
        ~leaderboardBefore(ordered[i + 1], ordered[i])

\* The users a list of entries names.
UsersOf(ordered) == { ordered[i].Username : i \in DOMAIN ordered }

\* Results of a submission as the patch may receive them.
PatchResults ==
    { <<ResponseResult(Str_x, StatusCorrect, NilScore)>>,
      <<ResponseResult(Str_x, StatusIncorrect, NilScore)>>,
      <<ResponseResult(Str_x, StatusAlreadyAnswered, 1)>>,
      <<ResponseResult(Str_x, StatusCorrect, NilScore),
        ResponseResult(Str_y, StatusIncorrect, NilScore)>> }

PatchTimes == 0 .. MaxTime + 1

\* C24: a cached leaderboard that is sorted under leaderboardBefore is
\* sorted again after updateCachedLeaderboardAfterSubmission has appended
\* or changed one entry and bubbled it: no entry ranks before its
\* predecessor.  The bubbling ends, and it only reorders: the list holds
\* the same users, plus the appended one.  Every cached list reached by
\* fills and patches is sorted.
C24_PatchKeepsLeaderboardSorted ==
    \A id \in DOMAIN leaderboardCache :
      /\ SortedLeaderboard(leaderboardCache[id].ordered)
      /\ \A user \in {Str_a, Str_b, Str_z}, results \in PatchResults, t \in PatchTimes :
           LET before == leaderboardCache[id].ordered
               after  == updateCachedLeaderboardAfterSubmission(
                             leaderboardCache, id, user, results, t)[id].ordered
           IN  /\ SortedLeaderboard(after)
               /\ UsersOf(after)
                    = UsersOf(before)
                        \cup (IF \E i \in DOMAIN results : Scored(results[i].Status)
                              THEN {user} ELSE {})
               /\ Len(after) = Cardinality(UsersOf(after))

\* User b, ranked first with one point, has just answered another question
\* wrongly at a later time and has moved behind user a, who holds one point
\* from an earlier submission: the patched entry was bubbled to the tail.
C24_Witness ==
    /\ last.op = "Service.SubmitResponses"
    /\ last.user = Str_b
    /\ last.err = ErrNone
    /\ last.results[1].Status = StatusIncorrect
    /\ Str_q \in DOMAIN leaderboardCache
    /\ Len(leaderboardCache[Str_q].ordered) = 2
    /\ leaderboardCache[Str_q].ordered[1].Username = Str_a
    /\ leaderboardCache[Str_q].ordered[2].Username = Str_b
    /\ leaderboardCache[Str_q].ordered[1].TotalScore = 1
    /\ leaderboardCache[Str_q].ordered[2].TotalScore = 1
    /\ leaderboardCache[Str_q].ordered[2].AnsweredCount = 2
    /\ leaderboardCache[Str_q].ordered[1].LastSubmissionAt
         < leaderboardCache[Str_q].ordered[2].LastSubmissionAt

\* indexByUser is the inverse of ordered: one key per entry, each username
\* once, and every entry found at the position the map gives.
IndexIsInverse(cache) ==
    /\ DOMAIN cache.indexByUser = UsersOf(cache.ordered)
    /\ Cardinality(UsersOf(cache.ordered)) = Len(cache.ordered)
    /\ \A i \in DOMAIN cache.ordered :
         cache.indexByUser[cache.ordered[i].Username] = i

\* C25: in every state reached by cache fills and sequential patches the
\* username-to-index map of a cached leaderboard is the exact inverse of
\* its ordered list (each username at most once, one key per entry,
\* indexByUser[ordered[i].Username] = i), and it is so again after the
\* next fill from the store and after the next patch.
C25_IndexIsInverseOfOrdered ==
    \A id \in DOMAIN leaderboardCache :
      /\ IndexIsInverse(leaderboardCache[id])
      /\ IndexIsInverse(setCachedLeaderboard(leaderboardCache, id,
                            StoreGetLeaderboard(DB, id).value)[id])
      /\ \A user \in {Str_a, Str_b, Str_z}, results \in PatchResults, t \in PatchTimes :
           IndexIsInverse(updateCachedLeaderboardAfterSubmission(
                              leaderboardCache, id, user, results, t)[id])

\* User b has just been appended to a cached list that held user a with no
\* point, and has been swapped in front of a with one point.
C25_Witness ==
    /\ last.op = "Service.SubmitResponses"
    /\ last.user = Str_b
    /\ last.err = ErrNone
    /\ last.results[1].Status = StatusCorrect
    /\ Str_q \in DOMAIN leaderboardCache
    /\ Len(leaderboardCache[Str_q].ordered) = 2
    /\ leaderboardCache[Str_q].ordered[1].Username = Str_b
    /\ leaderboardCache[Str_q].ordered[1].AnsweredCount = 1
    /\ leaderboardCache[Str_q].ordered[2].Username = Str_a
    /\ leaderboardCache[Str_q].ordered[2].TotalScore = 0
    /\ leaderboardCache[Str_q].indexByUser[Str_b] = 1
    /\ leaderboardCache[Str_q].indexByUser[Str_a] = 2

\* ---------------------------------------------------------------------
\* The ranking rule by itself: leaderboardBefore is applied to two entries
\* drawn from a bounded set, and the call is recorded in last.

\* Entries over three usernames, one of them a prefix of another, with
\* scores 0..1 and submission times 0..MaxTime.
RankEntries ==
    { LeaderboardEntry(u, s, 1, t) :
        u \in {Str_a, Str_b, Str_a \o Str_b}, s \in 0 .. 1, t \in 0 .. MaxTime }

\* leaderboardBefore(a, b)
DoLeaderboardBefore(entries) ==
    \E a \in entries, b \in entries :
        /\ last' = Call("leaderboardBefore", <<>>, <<>>, <<>>, <<>>,
                        <<a, b, leaderboardBefore(a, b)>>, ErrNone, NoCalls, 0, 0)
        /\ UNCHANGED <<storeVars, now, cacheVars, procs, bank>>

NextRank == DoLeaderboardBefore(RankEntries)

SpecRank == Init /\ [][NextRank]_vars

\* The attempts table holding one row that gives entry e by aggregation.
RowsOfEntry(e) ==
    { AttemptRow(Str_q, Str_x, e.Username, Ans_A, e.TotalScore, e.LastSubmissionAt) }

\* C26: leaderboardBefore is a strict order (irreflexive, asymmetric,
\* transitive); of two entries with different usernames exactly one ranks
\* before the other; and it places two entries as the store's ORDER BY
\* total_score DESC, last_submission ASC, username ASC places their rows.
C26_RankingIsStrictTotalOrder ==
    last.op = "leaderboardBefore" =>
      LET a == last.value[1]
          b == last.value[2]
      IN  /\ last.value[3] = leaderboardBefore(a, b)
          /\ ~leaderboardBefore(a, a)
          /\ leaderboardBefore(a, b) => ~leaderboardBefore(b, a)
          /\ \A c \in RankEntries :
               (leaderboardBefore(a, b) /\ leaderboardBefore(b, c))
                 => leaderboardBefore(a, c)
          /\ a.Username # b.Username =>
               /\ leaderboardBefore(a, b) \/ leaderboardBefore(b, a)
               /\ leaderboardBefore(a, b)
                    <=> OrderBy(GroupByUser(RowsOfEntry(a) \cup RowsOfEntry(b), Str_q))
                          = <<a, b>>

\* Two entries with the same score and the same submission time have been
\* compared, and the username that is a prefix of the other ranks first.
C26_Witness ==
    /\ last.op = "leaderboardBefore"
    /\ last.value[1].Username = Str_a
    /\ last.value[2].Username = Str_a \o Str_b
    /\ last.value[1].TotalScore = last.value[2].TotalScore
    /\ last.value[1].LastSubmissionAt = last.value[2].LastSubmissionAt
    /\ last.value[3] = TRUE

\* ---------------------------------------------------------------------
\* The order of the checks in the loop of the store's SubmitResponses.

Resp_xC == SubmittedResponse(Str_x, <<67>>)

\* Items with a valid letter (padded, lower case), two letters, a letter
\* beyond the options, and a question of the other quiz.
CheckedResponses == {Resp_xb, Resp_xAB, Resp_xC, Resp_yA}

\* The questions linked to a quiz in quiz_questions.
LinkedQuestions(id) ==
    { l.question_id : l \in { qq \in quiz_questions : qq.quiz_id = id } }

\* The answer is one letter, after trimming and upper-casing, among the
\* first n letters of the alphabet.
ValidLetterFor(answer, n) ==
    LET text == ToUpper(TrimSpace(answer))
    IN  Len(text) = 1 /\ text[1] \in 65 .. (65 + n - 1)

\* Item j of a batch names a question of the quiz with a valid letter for it.
ValidItem(id, responses, j) ==
    /\ responses[j].QuestionID \in LinkedQuestions(id)
    /\ ValidLetterFor(responses[j].Answer,
                      QuestionLookup(DB, id)[responses[j].QuestionID].optionCount)

\* The user has a row for the question of item j, or an earlier valid item
\* of the batch names it.
AnsweredBefore(id, user, responses, j) ==
    \/ \E row \in QuestionAttempts(attempts, id, responses[j].QuestionID) :
           row.username_norm = user
    \/ \E k \in 1 .. (j - 1) :
           /\ responses[k].QuestionID = responses[j].QuestionID
           /\ ValidItem(id, responses, k)

\* C27: in the store's SubmitResponses validation precedes duplicate
\* detection.  An item naming a question that is not of the quiz gets
\* invalid_question, an item with an invalid or out-of-range letter gets
\* invalid_letter, whether or not the user has answered the question
\* before; already_answered is given exactly to a valid letter on a known
\* question that was answered before, in an earlier call or earlier in the
\* batch.  An invalid item carries no stored score and the call adds rows
\* for valid items only and changes no row.
C27_ValidationPrecedesDuplicateCheck ==
    \A id \in {Str_q, Str_r}, responses \in BatchesOf(CheckedResponses) :
      LinkedQuestions(id) # {} =>
        LET r == StoreSubmitResponses(DB, id, Str_a, responses, now, 0)
        IN  /\ r.err = ErrNone
            /\ Len(r.results) = Len(responses)
            /\ \A j \in DOMAIN responses :
                 /\ responses[j].QuestionID \notin LinkedQuestions(id) =>
                      /\ r.results[j].Status = StatusInvalidQuestion
                      /\ r.results[j].AttemptScore = NilScore
                 /\ (responses[j].QuestionID \in LinkedQuestions(id)
                       /\ ~ValidItem(id, responses, j)) =>
                      /\ r.results[j].Status = StatusInvalidLetter
                      /\ r.results[j].AttemptScore = NilScore
                 /\ r.results[j].Status = StatusAlreadyAnswered
                      <=> (ValidItem(id, responses, j)
                             /\ AnsweredBefore(id, Str_a, responses, j))
            /\ attempts \subseteq r.attempts
            /\ \A row \in r.attempts \ attempts :
                 \E j \in DOMAIN responses :
                   /\ ValidItem(id, responses, j)
                   /\ ~AnsweredBefore(id, Str_a, responses, j)
                   /\ row.question_id = responses[j].QuestionID
                   /\ row.answer_letter = ToUpper(TrimSpace(responses[j].Answer))

\* Question x of quiz q and question y of quiz r were answered; then a
\* batch to q named y, which the user has answered in r, and gave two
\* letters for x, which the user has answered in q: invalid_question and
\* invalid_letter, and no row was written.
C27_Witness ==
    /\ last.op = "store.SubmitResponses"
    /\ last.quiz = Str_q
    /\ last.responses = <<Resp_yA, Resp_xAB>>
    /\ last.err = ErrNone
    /\ last.results[1].Status = StatusInvalidQuestion
    /\ last.results[2].Status = StatusInvalidLetter
    /\ last.wrote = 0
    /\ \E row \in QuestionAttempts(attempts, Str_q, Str_x) : row.username_norm = Str_a
    /\ \E row \in QuestionAttempts(attempts, Str_r, Str_y) : row.username_norm = Str_a

\* ---------------------------------------------------------------------
\* One batch that names the same question more than once.

\* Batches that answer question x twice or three times, with the same or
\* another letter.
RepeatingBatches ==
    { <<Resp_xA, Resp_xA>>, <<Resp_xA, Resp_xb>>, <<Resp_xb, Resp_xA>>,
      <<Resp_xb, Resp_xA, Resp_xb>> }

\* C28: when a batch of Service.SubmitResponses names a question twice with
\* valid letters and the user has no row for it, the first occurrence is
\* scored correct or incorrect and its letter and score are the row that is
\* stored; the later occurrence gets already_answered with the score of the
\* first; and a cached leaderboard counts the question once: the answered
\* count of the user grows by one and the total score by the score of the
\* first occurrence.
C28_RepeatedQuestionCountsOnce ==
    \A u \in {Str_a, Str_B_padded}, responses \in RepeatingBatches :
      LET user  == ToLower(TrimSpace(u))
          r     == SubmitResponses(World, Str_q, u, responses, now, now, 0)
          first == IF responses[1] = Resp_xA THEN 1 ELSE 0
      IN  ( /\ Str_x \in LinkedQuestions(Str_q)
            /\ \A row \in QuestionAttempts(attempts, Str_q, Str_x) :
                   row.username_norm # user ) =>
            /\ r.err = ErrNone
            /\ r.results[1].Status
                 = (IF first = 1 THEN StatusCorrect ELSE StatusIncorrect)
            /\ \A j \in 2 .. Len(responses) :
                 /\ r.results[j].Status = StatusAlreadyAnswered
                 /\ r.results[j].AttemptScore = first
            /\ { row \in QuestionAttempts(r.w.db.attempts, Str_q, Str_x) :
                   row.username_norm = user }
                 = { AttemptRow(Str_q, Str_x, user,
                                ToUpper(TrimSpace(responses[1].Answer)), first, now) }
            /\ r.w.db.attempts \ attempts
                 = { AttemptRow(Str_q, Str_x, user,
                                ToUpper(TrimSpace(responses[1].Answer)), first, now) }
            /\ Str_q \in DOMAIN leaderboardCache =>
                 LET before == leaderboardCache[Str_q]
                     after  == r.w.cache.leaderboardCache[Str_q]
                     old    == IF EntriesOf(before, user) = {}
                               THEN LeaderboardEntry(user, 0, 0, 0)
                               ELSE CHOOSE e \in EntriesOf(before, user) : TRUE
                 IN  /\ Cardinality(EntriesOf(after, user)) = 1
                     /\ \A e \in EntriesOf(after, user) :
                          /\ e.AnsweredCount = old.AnsweredCount + 1
                          /\ e.TotalScore = old.TotalScore + first

\* User a, who had answered y and stood in the cached leaderboard with one
\* answer and no point, sent x twice in one batch, first wrongly, then
\* rightly: incorrect, then already_answered with score 0; the cached entry
\* counts two answers and no point.
C28_Witness ==
    /\ last.op = "Service.SubmitResponses"
    /\ last.user = Str_a
    /\ last.responses = <<Resp_xb, Resp_xA>>
    /\ last.err = ErrNone
    /\ last.results[1].Status = StatusIncorrect
    /\ last.results[2].Status = StatusAlreadyAnswered
    /\ last.results[2].AttemptScore = 0
    /\ last.wrote = 1
    /\ Str_q \in DOMAIN leaderboardCache
    /\ \E e \in EntriesOf(leaderboardCache[Str_q], Str_a) :
         e.TotalScore = 0 /\ e.AnsweredCount = 2

\* ---------------------------------------------------------------------
\* The three evaluation paths side by side: a quiz of one question x is
\* created with any option count and correct index, the bank is given a
\* question x of any option count and correct index, and /responses is
\* called without a quiz id (bank), with a quiz id only
\* (EvaluateResponsesForQuiz) and with quiz id and username (store).
OneQuestionSets == { <<question>> : question \in BankQuestions }

NextPaths ==
    \/ SvcEnsureQuiz({Str_q}, {TRUE}, OneQuestionSets, FALSE)
    \/ BankAddBuiltQuestions(OneQuestionSets)
    \/ ApiHandleResponses(ResponsesRequests({<<>>, Str_q}, {<<>>, Str_a},
                                            SingleBatches({Resp_xb})))

SpecPaths == Init /\ [][NextPaths]_vars

\* The bank and the store hold question x with the same option count and
\* the same correct index, and x is a question of quiz q.
SameQuestionEverywhere ==
    /\ Str_x \in DOMAIN bank
    /\ Str_x \in LinkedQuestions(Str_q)
    /\ \E row \in questions :
         /\ row.question_id = Str_x
         /\ row.option_count = bank[Str_x].NumOptions
         /\ row.correct_index = bank[Str_x].CorrectIndex

\* C29: for a question with the same option count and correct index in the
\* bank and in the quiz, and for every submitted text, Bank.EvaluateResponses,
\* Service.EvaluateResponsesForQuiz and the store's SubmitResponses for a
\* user without a row give the same status, one of correct, incorrect,
\* invalid_letter and invalid_question; a question none of them knows is
\* invalid_question for all; and evaluating again gives the same verdict.
C29_EvaluationPathsAgree ==
    SameQuestionEverywhere =>
      \A qid \in {Str_x, Str_z}, text \in AnswerTexts :
        LET batch    == <<SubmittedResponse(qid, text)>>
            byBank   == EvaluateResponses(bank, batch)
            forQuiz  == EvaluateResponsesForQuiz(World, Str_q, batch)
            again    == EvaluateResponsesForQuiz(forQuiz.w, Str_q, batch)
            byStore  == StoreSubmitResponses(DB, Str_q, Str_b, batch, now, 0)
        IN  /\ forQuiz.err = ErrNone
            /\ byStore.err = ErrNone
            /\ byBank[1].Status \in {StatusCorrect, StatusIncorrect,
                                     StatusInvalidLetter, StatusInvalidQuestion}
            /\ forQuiz.results[1].Status = byBank[1].Status
            /\ byStore.results[1].Status = byBank[1].Status
            /\ again.results = forQuiz.results
            /\ qid = Str_z => byBank[1].Status = StatusInvalidQuestion

\* The bank and quiz q hold question x with two options, the second being
\* correct, and a request with quiz id and username has just been scored
\* correct by the store for the text " b".
C29_Witness ==
    /\ SameQuestionEverywhere
    /\ bank[Str_x] = Question(Str_x, 1, 2)
    /\ last.op = "API.HandleResponses"
    /\ last.quiz = Str_q
    /\ last.user = Str_a
    /\ last.responses = <<Resp_xb>>
    /\ last.err = ErrNone
    /\ last.results[1].Status = StatusCorrect
    /\ last.calls.submit = 1

\* ---------------------------------------------------------------------
\* QuizNotFound on the write path against the quiz catalog.

\* C30: the store's SubmitResponses fails with QuizNotFound if and only if
\* the quiz id is unknown: for every quiz id of the catalog (QuizExists,
\* GetQuizMetadata and GetLeaderboard succeed), a quiz created with an empty
\* question set included, it returns no error and one result per item.
C30_QuizNotFoundIffUnknownQuiz ==
    \A id \in {Str_q, Str_r}, responses \in SingleBatches({Resp_xA, Resp_zA}) :
      LET r == StoreSubmitResponses(DB, id, Str_a, responses, now, 0)
      IN  /\ r.err = ErrQuizNotFound <=> ~QuizExists(DB, id)
          /\ QuizExists(DB, id) =>
               /\ StoreGetQuizMetadata(DB, id).err = ErrNone
               /\ StoreGetLeaderboard(DB, id).err = ErrNone
               /\ r.err = ErrNone
               /\ Len(r.results) = Len(responses)

\* ---------------------------------------------------------------------
\* Service.EvaluateResponsesForQuiz and the attempts.

\* C31: Service.EvaluateResponsesForQuiz is read-only with respect to
\* attempts.  It makes no call of the attempt store (SubmitResponses,
\* GetLeaderboard, GetAttemptScores), leaves every table of the store, the
\* leaderboard cache and the attempt-score cache as they were, and gives
\* no result already_answered, whoever has answered the question before;
\* the only caches it may fill are those of the quiz metadata and the
\* questions; for an unknown quiz it fails with QuizNotFound and no result.
C31_EvaluationForQuizIsReadOnly ==
    \A id \in {Str_q, Str_q_padded, Str_r},
       responses \in SingleBatches({Resp_xA, Resp_xb, Resp_zA})
                       \cup {<<Resp_xA, Resp_xA>>} :
      LET r == EvaluateResponsesForQuiz(World, id, responses)
      IN  /\ r.w.calls.submit = 0
          /\ r.w.calls.leaderboard = 0
          /\ r.w.calls.scores = 0
          /\ r.w.calls.create = 0
          /\ r.w.db = DB
          /\ r.w.cache.leaderboardCache = leaderboardCache
          /\ r.w.cache.attemptScores = attemptScores
          /\ \A j \in DOMAIN r.results :
               r.results[j].Status \in {StatusCorrect, StatusIncorrect,
                                        StatusInvalidLetter, StatusInvalidQuestion}
          /\ IF Absent(TrimSpace(id))
             THEN r.err = ErrQuizNotFound /\ r.results = <<>>
             ELSE r.err = ErrNone /\ Len(r.results) = Len(responses)

\* User a has answered x and stands in both caches; then a request for
\* quiz q without a username answered x wrongly and was told so, with no
\* call of SubmitResponses and no new row.
C31_Witness ==
    /\ last.op = "API.HandleResponses"
    /\ last.quiz = Str_q
    /\ last.user = <<>>
    /\ last.responses = <<Resp_xb>>
    /\ last.err = ErrNone
    /\ last.results[1].Status = StatusIncorrect
    /\ last.calls.submit = 0
    /\ last.wrote = 0
    /\ \E row \in QuestionAttempts(attempts, Str_q, Str_x) : row.username_norm = Str_a
    /\ Str_q \in DOMAIN leaderboardCache
    /\ attemptScoresCacheKey(Str_q, Str_a) \in DOMAIN attemptScores

\* ---------------------------------------------------------------------
\* Submissions through the Service while the storage may fail at any
\* statement of the store's transaction; quiz r may be created without
\* questions, which the store's SubmitResponses reports as QuizNotFound.
NextSvcFault ==
    \/ SvcEnsureQuiz({Str_q}, {TRUE}, {<<QuestionX, QuestionY>>}, FALSE)
    \/ SvcEnsureQuiz({Str_r}, {TRUE}, {<<>>}, FALSE)
    \/ SvcSubmitResponses({Str_q, Str_r}, {Str_a},
                          SingleBatches({Resp_xA, Resp_yA}) \cup {<<Resp_xA, Resp_yA>>},
                          {0}, TRUE)
    \/ SvcGetLeaderboard({Str_q}, {0})
    \/ SvcGetAttemptScores({Str_q}, {Str_a})

SpecSvcFault == Init /\ [][NextSvcFault]_vars

\* C32: when the attempt store's SubmitResponses returns an error
\* (QuizNotFound or a storage failure), Service.SubmitResponses returns
\* that error with no results, and the cached leaderboard and the cached
\* attempt scores are what they were before the call.
C32_StoreErrorPatchesNoCache ==
    \A id \in {Str_q, Str_r}, u \in {Str_a, Str_b},
       responses \in SingleBatches({Resp_xA, Resp_yA}) \cup {<<Resp_xA, Resp_yA>>} :
      \A failAt \in SubmitFailPoints(DB, id, responses, TRUE) :
        LET stored == StoreSubmitResponses(DB, id, u, responses, now, failAt)
            r      == SubmitResponses(World, id, u, responses, now, now, failAt)
        IN  (QuizExists(DB, id) /\ stored.err # ErrNone) =>
              /\ r.w.calls.submit = 1
              /\ r.err = stored.err
              /\ r.err \in {ErrQuizNotFound, ErrStorage}
              /\ r.results = <<>>
              /\ r.w.cache.leaderboardCache = leaderboardCache
              /\ r.w.cache.attemptScores = attemptScores

\* User a answered x of quiz q and both caches of q were filled; then the
\* commit of a's answer to y failed: the call returned the storage error
\* after its INSERT, and the caches still show one answer.
C32_Witness ==
    /\ last.op = "Service.SubmitResponses"
    /\ last.quiz = Str_q
    /\ last.user = Str_a
    /\ last.responses = <<Resp_yA>>
    /\ last.err = ErrStorage
    /\ last.results = <<>>
    /\ last.calls.submit = 1
    /\ last.wrote = 1
    /\ Str_q \in DOMAIN leaderboardCache
    /\ \E e \in EntriesOf(leaderboardCache[Str_q], Str_a) : e.AnsweredCount = 1
    /\ attemptScoresCacheKey(Str_q, Str_a) \in DOMAIN attemptScores
    /\ DOMAIN attemptScores[attemptScoresCacheKey(Str_q, Str_a)] = {Str_x}

\* ---------------------------------------------------------------------
\* Quiz ids and usernames that contain "::", the separator of
\* attemptScoresCacheKey: quiz "q" with user "a::b", and quiz "q::a" with
\* user "b".
Str_q_a == Str_q \o <<58, 58>> \o Str_a
Str_a_b == Str_a \o <<58, 58>> \o Str_b

NextKeys ==
    \/ SvcEnsureQuiz({Str_q, Str_q_a}, {TRUE}, {<<QuestionX>>}, FALSE)
    \/ SvcSubmitResponses({Str_q, Str_q_a}, {Str_a_b, Str_b},
                          SingleBatches({Resp_xA, Resp_xb}), {0}, FALSE)
    \/ SvcGetAttemptScores({Str_q, Str_q_a}, {Str_a_b, Str_b})

SpecKeys == Init /\ [][NextKeys]_vars

\* The (quiz id, normalized username) pairs the claims range over.
ScorePairs == {Str_q, Str_q_a} \X {Str_a, Str_b, Str_a_b}

\* C33: under sequential use of one Service, a materialized attempt-score
\* cache of (quiz, user) equals the store's GetAttemptScores(quiz, user);
\* and after SubmitResponses has returned correct or incorrect for a
\* question, the next GetAttemptScores of that user holds the question with
\* score 1 or 0, whether the cache existed before the submission or is
\* filled by that read.
C33_ScoreCacheEqualsStore ==
    \A pair \in ScorePairs :
      /\ ( /\ QuizExists(DB, pair[1])
            /\ attemptScoresCacheKey(pair[1], pair[2]) \in DOMAIN attemptScores ) =>
           attemptScores[attemptScoresCacheKey(pair[1], pair[2])]
             = StoreGetAttemptScores(DB, pair[1], pair[2]).value
      /\ \A responses \in SingleBatches({Resp_xA, Resp_xb, Resp_yA}) :
           LET r    == SubmitResponses(World, pair[1], pair[2], responses, now, now, 0)
               read == GetAttemptScores(r.w, pair[1], pair[2])
           IN  (r.err = ErrNone /\ Scored(r.results[1].Status)) =>
                 /\ read.err = ErrNone
                 /\ responses[1].QuestionID \in DOMAIN read.value
                 /\ read.value[responses[1].QuestionID] = ScoreOf(r.results[1].Status)

\* The cached scores of a pair in a world: absent, or the map cached.
CachedScoresOf(w, pair) ==
    IF attemptScoresCacheKey(pair[1], pair[2]) \in DOMAIN w.cache.attemptScores
    THEN <<w.cache.attemptScores[attemptScoresCacheKey(pair[1], pair[2])]>>
    ELSE <<>>

\* C36: the attempt-score cache entries of two different (quiz id,
\* normalized username) pairs are isolated: a GetAttemptScores fill and a
\* submission patch for one pair neither create nor modify the cached
\* scores of the other pair, because the cache key identifies the pair.
C36_ScoreCachesAreIsolated ==
    \A one \in ScorePairs, other \in ScorePairs :
      one # other =>
        /\ CachedScoresOf(GetAttemptScores(World, one[1], one[2]).w, other)
             = CachedScoresOf(World, other)
        /\ \A responses \in SingleBatches({Resp_xA, Resp_xb}) :
             CachedScoresOf(SubmitResponses(World, one[1], one[2], responses,
                                            now, now, 0).w, other)
               = CachedScoresOf(World, other)

\* ---------------------------------------------------------------------
\* Concurrent GetQuizQuestions(quizID, createIfMissing = true)

\* A request for the questions of a quiz; metadata is what EnsureQuiz
\* returns to GetQuizQuestions.
QuestionsRequest(quiz) ==
    [pc |-> "questions.lookup", op |-> "Service.GetQuizQuestions", quiz |-> quiz,
     user |-> <<>>, responses |-> <<>>, limit |-> 0, results |-> <<>>,
     value |-> <<>>, err |-> ErrNone, metadata |-> NoMetadata]

\* A request for service.GetQuizQuestions with createIfMissing arrives.
ConcQuestionsCall(ids) ==
    \E id \in ids :
        /\ CanAccept
        /\ procs' = MapPut(procs, NextRequest, QuestionsRequest(id))
        /\ UNCHANGED <<storeVars, cacheVars, now, last, bank>>

\* GetQuizQuestions from getCachedQuiz to the return of the call of
\* s.quizzes.GetQuizMetadata in createQuizWithID: found is what the store
\* holds under the id.
QuestionsLookedUp(p, quizID, found) ==
    IF CachedQuizHit(World, quizID)
    THEN /\ procs' = [procs EXCEPT ![p].pc = "done",
                        ![p].metadata = quizMetaCache[quizID],
                        ![p].value = quizQuestions[quizID]]
         /\ UNCHANGED cacheVars
    ELSE IF quizID \in DOMAIN quizMetaCache
    THEN /\ procs' = [procs EXCEPT ![p].pc = "questions.read",
                        ![p].metadata = quizMetaCache[quizID]]
         /\ UNCHANGED cacheVars
    ELSE IF found.err = ErrNone
    THEN /\ procs' = [procs EXCEPT ![p].pc = "questions.read",
                        ![p].metadata = found.value]
         /\ quizMetaCache' = MapPut(quizMetaCache, quizID, found.value)
         /\ UNCHANGED <<quizQuestions, leaderboardCache, attemptScores>>
    ELSE /\ procs' = [procs EXCEPT ![p].pc = "questions.create"]
         /\ UNCHANGED cacheVars

ConcQuestionsLookup ==
    \E p \in DOMAIN procs :
        /\ procs[p].pc = "questions.lookup"
        /\ QuestionsLookedUp(p, procs[p].quiz, StoreGetQuizMetadata(DB, procs[p].quiz))
        /\ UNCHANGED <<storeVars, now, last, bank>>

\* createQuizWithID after its call of s.quizzes.CreateQuiz returned created
QuestionsCreated(p, metadata, qs, created) ==
    /\ quizzes' = created.db.quizzes
    /\ quiz_questions' = created.db.quiz_questions
    /\ questions' = created.db.questions
    /\ attempts' = created.db.attempts
    /\ IF created.err = ErrNone
       THEN /\ procs' = [procs EXCEPT ![p].pc = "questions.cache",
                           ![p].metadata = metadata, ![p].value = qs]
            /\ UNCHANGED cacheVars
       ELSE IF StoreGetQuizMetadata(created.db, metadata.QuizID).err = ErrNone
       THEN /\ procs' = [procs EXCEPT ![p].pc = "questions.read",
                           ![p].metadata =
                              StoreGetQuizMetadata(created.db, metadata.QuizID).value]
            /\ quizMetaCache' =
                 MapPut(quizMetaCache, metadata.QuizID,
                        StoreGetQuizMetadata(created.db, metadata.QuizID).value)
            /\ UNCHANGED <<quizQuestions, leaderboardCache, attemptScores>>
       ELSE /\ procs' = [procs EXCEPT ![p].pc = "done", ![p].err = created.err]
            /\ UNCHANGED cacheVars

\* createQuizWithID from the call of the fetcher to the return of
\* s.quizzes.CreateQuiz
ConcQuestionsCreate(sets) ==
    \E p \in DOMAIN procs, qs \in sets :
        /\ procs[p].pc = "questions.create"
        /\ QuestionsCreated(p, QuizMetadata(procs[p].quiz, Len(qs)), qs,
                            StoreCreateQuiz(DB, QuizMetadata(procs[p].quiz, Len(qs)),
                                            qs, 0))
        /\ UNCHANGED <<now, last, bank>>

\* createQuizWithID from setCachedQuiz to the return of EnsureQuiz
ConcQuestionsCache ==
    \E p \in DOMAIN procs :
        /\ procs[p].pc = "questions.cache"
        /\ quizMetaCache' = MapPut(quizMetaCache, procs[p].metadata.QuizID,
                                   procs[p].metadata)
        /\ quizQuestions' = MapPut(quizQuestions, procs[p].metadata.QuizID,
                                   procs[p].value)
        /\ procs' = [procs EXCEPT ![p].pc = "questions.read"]
        /\ UNCHANGED <<storeVars, leaderboardCache, attemptScores, now, last, bank>>

\* GetQuizQuestions at its call of s.quizzes.GetQuizQuestions
ConcQuestionsRead ==
    \E p \in DOMAIN procs :
        /\ procs[p].pc = "questions.read"
        /\ procs' =
             IF StoreGetQuizQuestions(DB, procs[p].metadata.QuizID).err = ErrNone
             THEN [procs EXCEPT ![p].pc = "questions.fill",
                     ![p].value =
                        StoreGetQuizQuestions(DB, procs[p].metadata.QuizID).value]
             ELSE [procs EXCEPT ![p].pc = "done", ![p].value = <<>>,
                     ![p].err =
                        StoreGetQuizQuestions(DB, procs[p].metadata.QuizID).err]
        /\ UNCHANGED <<storeVars, cacheVars, now, last, bank>>

\* GetQuizQuestions from setCachedQuiz to the return
ConcQuestionsFill ==
    \E p \in DOMAIN procs :
        /\ procs[p].pc = "questions.fill"
        /\ quizMetaCache' = MapPut(quizMetaCache, procs[p].metadata.QuizID,
                                   procs[p].metadata)
        /\ quizQuestions' = MapPut(quizQuestions, procs[p].metadata.QuizID,
                                   procs[p].value)
        /\ procs' = [procs EXCEPT ![p].pc = "done"]
        /\ UNCHANGED <<storeVars, leaderboardCache, attemptScores, now, last, bank>>

\* Two requests for the questions of the missing quiz q are served
\* concurrently, the fetcher handing one or two questions to each; a user
\* answers question x of q in between.
NextRace ==
    \/ ConcQuestionsCall({Str_q})
    \/ ConcQuestionsLookup
    \/ ConcQuestionsCreate({ <<QuestionX>>, <<QuestionX, QuestionY>> })
    \/ ConcQuestionsCache
    \/ ConcQuestionsRead
    \/ ConcQuestionsFill
    \/ SvcSubmitResponses({Str_q}, {Str_a}, SingleBatches({Resp_xA}), {0}, FALSE)

SpecRace == Init /\ [][NextRace]_vars

\* The requests for questions that have returned without an error.
ServedQuestions == { p \in DOMAIN procs : /\ procs[p].op = "Service.GetQuizQuestions"
                                          /\ procs[p].pc = "done"
                                          /\ procs[p].err = ErrNone }

\* Once all requests have completed, each was returned the stored question
\* set and the Service caches that set.
Converged ==
    AllDone =>
      \A p \in ServedQuestions :
         /\ procs[p].value = StoreGetQuizQuestions(DB, procs[p].quiz).value
         /\ procs[p].quiz \in DOMAIN quizQuestions
         /\ quizQuestions[procs[p].quiz] = StoreGetQuizQuestions(DB, procs[p].quiz).value

\* A step keeps every attempt of a quiz the store holds.
KeepsAttempts ==
    \A row \in attempts : QuizExists(DB, row.quiz_id) => row \in attempts'

\* C34: when requests for the questions of one missing quiz are served
\* concurrently with createIfMissing, then after all have completed each
\* caller holds the question set the store holds, the Service caches that
\* set, and no step has deleted an attempt of the quiz recorded since its
\* first creation.
C34_ConcurrentCreatesConverge == []Converged /\ [][KeepsAttempts]_vars

\* ---------------------------------------------------------------------
\* A Service constructed over a store that already holds quizzes

\* NewService(quizzes, attempts, fetcher): the four maps are made empty;
\* the store is the one earlier Services have written.
NewService ==
    /\ quizMetaCache' = <<>>
    /\ quizQuestions' = <<>>
    /\ leaderboardCache' = <<>>
    /\ attemptScores' = <<>>
    /\ last' = Call("NewService", <<>>, <<>>, <<>>, <<>>, <<>>, ErrNone, NoCalls, 0, 0)
    /\ UNCHANGED <<storeVars, now, procs, bank>>

\* Quizzes q and r are asked for with createIfMissing or created under a
\* generated id, user a answers q, and the Service is constructed anew.
NextRestart ==
    \/ SvcGetQuizQuestions({Str_q, Str_q_padded}, {TRUE},
                           { <<QuestionX, QuestionY>>, <<QuestionY>> }, FALSE)
    \/ SvcEnsureQuiz({Str_q}, {TRUE}, { <<QuestionY>> }, FALSE)
    \/ SvcCreateQuiz({Str_q, Str_r}, { <<QuestionX>> }, FALSE)
    \/ SvcSubmitResponses({Str_q}, {Str_a}, SingleBatches({Resp_xA, Resp_yA}), {0}, FALSE)
    \/ NewService

SpecRestart == Init /\ [][NextRestart]_vars

\* r, returned by an operation applied to World, names the stored quiz id
\* as the store holds it, and neither the fetcher nor CreateQuiz was called.
ReturnsExisting(r, id) ==
    /\ r.err = ErrNone
    /\ r.metadata.QuizID = id
    /\ \E row \in quizzes : /\ row.quiz_id = id
                             /\ row.question_count = r.metadata.QuestionCount
    /\ r.w.calls.fetch = 0
    /\ r.w.calls.create = 0
    /\ r.w.db = DB

\* C35: under sequential use, EnsureQuiz and GetQuizQuestions with
\* createIfMissing and createQuizWithID, called for a quiz id the store
\* holds, return the stored metadata without a call of the fetcher or of the
\* store's CreateQuiz, and leave the store (the quiz's questions and all its
\* attempts) as it is.
C35_ExistingQuizIsNotReplaced ==
    \A id \in {Str_q, Str_q_padded, Str_r} :
      \A fetch \in FetchOutcomes({ <<QuestionY>>, <<QuestionX, QuestionY>> }, FALSE) :
        QuizExists(DB, TrimSpace(id)) =>
          /\ ReturnsExisting(EnsureQuiz(World, id, TRUE, fetch, 0), TrimSpace(id))
          /\ ReturnsExisting(GetQuizQuestions(World, id, TRUE, fetch, 0), TrimSpace(id))
          /\ ReturnsExisting(createQuizWithID(World, TrimSpace(id), fetch, 0),
                             TrimSpace(id))
          /\ ReturnsExisting(CreateQuiz(World, TrimSpace(id), fetch, 0), TrimSpace(id))

\* GetQuizQuestions with createIfMissing, by a Service that had nothing
\* cached, has found quiz q in the store, which holds an attempt of user a:
\* no fetch, no CreateQuiz, the attempt is still there.
C35_Witness ==
    /\ last.op = "Service.GetQuizQuestions"
    /\ last.quiz = Str_q_padded
    /\ last.err = ErrNone
    /\ last.calls.metadata = 1
    /\ last.calls.fetch = 0
    /\ last.calls.create = 0
    /\ \E row \in attempts : row.quiz_id = Str_q /\ row.username_norm = Str_a
    /\ Str_q \in DOMAIN quizQuestions

\* ---------------------------------------------------------------------
\* The store written while no Service holds a cache, then served again

\* No Service holds anything in its caches.
NoService ==
    /\ quizMetaCache = <<>>
    /\ quizQuestions = <<>>
    /\ leaderboardCache = <<>>
    /\ attemptScores = <<>>

\* store.CreateQuiz called on the store while no Service caches it.
DoStoreCreateQuizOffline(ids, sets, faults) ==
    /\ NoService
    /\ DoStoreCreateQuiz(ids, sets, faults)

\* Quiz q is created in the store, also over an earlier q, with questions
\* x and y or with y alone; a Service is constructed over the store; users
\* a and b answer and read the leaderboard.
NextBounds ==
    \/ DoStoreCreateQuizOffline({Str_q}, { <<QuestionX, QuestionY>>, <<QuestionY>> }, TRUE)
    \/ NewService
    \/ SvcSubmitResponses({Str_q}, {Str_a, Str_b},
                          SingleBatches({Resp_xA, Resp_yA})
                            \cup { <<Resp_xA, Resp_yA>>, <<Resp_xA, Resp_xb>> },
                          {0}, FALSE)
    \/ SvcGetLeaderboard({Str_q}, {0})

SpecBounds == Init /\ [][NextBounds]_vars

\* The number of questions linked to the quiz.
NumLinked(id) == Cardinality({ l \in quiz_questions : l.quiz_id = id })

\* total <= answered <= number of questions of the quiz
WithinBounds(entry, id) ==
    /\ 0 <= entry.TotalScore
    /\ entry.TotalScore <= entry.AnsweredCount
    /\ entry.AnsweredCount <= NumLinked(id)

\* C37: in every reachable state of the store each attempt row is for a
\* question linked to its quiz and has score 0 or 1, and each user's
\* aggregated total_score is at most the answered_count, which is at most
\* the number of questions of the quiz; under sequential use the entries
\* of a cached leaderboard keep the same bounds.
C37_AttemptsStayWithinTheQuiz ==
    /\ \A row \in attempts :
          /\ \E l \in quiz_questions : /\ l.quiz_id = row.quiz_id
                                       /\ l.question_id = row.question_id
          /\ row.score \in {0, 1}
    /\ \A id \in {Str_q, Str_r} :
          \A i \in DOMAIN StoreGetLeaderboard(DB, id).value :
              WithinBounds(StoreGetLeaderboard(DB, id).value[i], id)
    /\ \A id \in DOMAIN leaderboardCache :
          \A i \in DOMAIN leaderboardCache[id].ordered :
              WithinBounds(leaderboardCache[id].ordered[i], id)

\* Quiz q holds questions x and y, and user a has answered both of them
\* through the Service, one of them correctly; the cached leaderboard
\* shows that.
C37_Witness ==
    /\ NumLinked(Str_q) = 2
    /\ Cardinality(UserAttempts(attempts, Str_q, Str_a)) = 2
    /\ Str_q \in DOMAIN leaderboardCache
    /\ \E i \in DOMAIN leaderboardCache[Str_q].ordered :
          /\ leaderboardCache[Str_q].ordered[i].Username = Str_a
          /\ leaderboardCache[Str_q].ordered[i].AnsweredCount = 2
          /\ leaderboardCache[Str_q].ordered[i].TotalScore = 1
    /\ last.op = "Service.SubmitResponses"

\* ---------------------------------------------------------------------
\* CreateQuiz over an existing quiz with a failing transaction

\* What CreateQuiz is handed: two questions, one, the same question twice.
CreateSets == { <<QuestionX, QuestionY>>, <<QuestionY>>, <<QuestionX, QuestionX>> }

\* Quiz q is created and created again, with storage failures at any
\* statement and with a question set that repeats a question; quiz r shares
\* question x; user a answers q.
NextCreateFault ==
    \/ DoStoreCreateQuiz({Str_q}, CreateSets, TRUE)
    \/ DoStoreCreateQuiz({Str_r}, { <<Question(Str_x, 1, 2)>> }, FALSE)
    \/ DoStoreSubmitResponses({Str_q}, {Str_a}, SingleBatches({Resp_xA, Resp_yA}), FALSE)

SpecCreateFault == Init /\ [][NextCreateFault]_vars

\* C38: a call of the store's CreateQuiz that returns an error, at whatever
\* statement it failed, leaves every table as it was before the call: an
\* existing quiz under the id keeps its row, its question links and its
\* attempts, and a quiz that did not exist has no row.  A question set that
\* names one question twice makes the call fail on the uniqueness of the
\* question links.
C38_FailedCreateQuizChangesNothing ==
    \A id \in {Str_q, Str_r, <<>>} :
      \A qs \in CreateSets :
        /\ \A failAt \in CreateFailPoints(qs, TRUE) :
              StoreCreateQuiz(DB, QuizMetadata(id, Len(qs)), qs, failAt).err # ErrNone
                => StoreCreateQuiz(DB, QuizMetadata(id, Len(qs)), qs, failAt).db = DB
        /\ (id # <<>> /\ ~DistinctQuestions(qs))
              => StoreCreateQuiz(DB, QuizMetadata(id, Len(qs)), qs, 0).err = ErrConstraint
        /\ (id # <<>> /\ DistinctQuestions(qs))
              => StoreCreateQuiz(DB, QuizMetadata(id, Len(qs)), qs, 0).err = ErrNone

\* CreateQuiz for q with question x twice has failed on the constraint
\* while q held two questions and an attempt of user a: all are still there.
C38_Witness ==
    /\ last.op = "store.CreateQuiz"
    /\ last.quiz = Str_q
    /\ last.value = <<QuestionX, QuestionX>>
    /\ last.err = ErrConstraint
    /\ last.pre >= 1
    /\ NumLinked(Str_q) = 2
    /\ \E r \in quizzes : r.quiz_id = Str_q /\ r.question_count = 2
    /\ Cardinality(QuizAttempts(attempts, Str_q)) = last.pre

====
